---- MODULE Spec2Model ----
(***************************************************************************)
(* botmaid-rs: the runtime multiplexer (BotMaid::run), the four adapters   *)
(* (Telegram long poll, OneBot11 gateway, Cli, Mock) and the domain model  *)
(* that routes replies through Chat.api.                                   *)
(*                                                                         *)
(* Every adapter owns one tokio mpsc channel of capacity 1.  A send on a   *)
(* full channel parks the sender in the channel's FIFO wait list; recv     *)
(* pops the slot and hands the freed permit to the first parked sender.    *)
(* Tasks started with tokio::spawn run on a multi-threaded worker pool, so *)
(* the order in which spawned tasks reach their first statement is not     *)
(* determined by the order of the spawn calls.                             *)
(***************************************************************************)
EXTENDS Integers, Sequences, FiniteSets, TLC

\* ---------------------------------------------------------------- bounds
\* Raw frames / updates / lines / injected events accepted over one run,
\* summed over all adapters.
MaxArrivals == 3
\* Update ids a long-poll server may hand out: 1..MaxUpdateId.
MaxUpdateId == 2
\* Updates in one getUpdates response.
MaxBatch == 2

\* Characters in one text segment of a message: 0..MaxTextLen.
MaxTextLen == 2

\* Resp.retcode values of a gateway RPC response: 0..MaxRetcode.
MaxRetcode == 1

\* Outbound sends made on one Mock, and get_actions calls made on it.
MaxSends == 3
MaxGets == 3

\* Characters in one line of standard input: 0..MaxLineLen.
MaxLineLen == 4

\* Segments in the message of one gateway frame or request: 0..MaxSegments.
MaxSegments == 3

\* ------------------------------------------------------- program constants
\* tokio::sync::mpsc::channel::<Event<C>>(1)
QueueCapacityTwo == 1 + 1
QueueCapacity == 1
\* GetUpdatesReq { offset: -1, timeout: 1 } of the bootstrap call
BootstrapOffset == -1
BootstrapTimeout == 1
\* GetUpdatesReq { timeout: 60 } of the polling loop
PollTimeout == 60
\* tokio::time::sleep(Duration::from_secs(3))
RetryDelaySecs == 3

\* ------------------------------------------------------------ the adapters
\* The implementations of the BotAPI trait in the crate, and "External": any
\* other implementor handed to BotMaidBuilder::add_api, of which only the
\* trait contract is known (run may return, next_event may return None).
Kinds == {"Telegram", "OneBot11", "Cli", "Mock", "External"}

\* The adapter sets BotMaidBuilder::add_api assembles, in registration order.
Configs ==
    { <<"Telegram">>, <<"OneBot11">>, <<"Cli">>, <<"OneBot11", "OneBot11">>,
      <<"Mock", "Cli">>, <<"External">>, <<"External", "Cli">> }

VARIABLES
    apis,      \* BotMaid.apis: the registered adapters, a sequence of kinds
    mainPc,    \* BotMaid::run: "start", "join" (at join_all), "returned"
    runPc,     \* per adapter: position of its run() task
    drainPc,   \* per adapter: position of its drain loop task
    jobsPc,    \* the run_jobs task
    offset,    \* Telegram::run: the local `offset`
    req,       \* Telegram::run: the GetUpdatesReq of the last call issued
    resp,      \* Telegram::run: the response of the call in flight
    arrivals,  \* per adapter: raw items accepted so far
    spawned,   \* per adapter: decode tasks spawned and not yet run
    queue,     \* per adapter: the channel's buffer
    waiters,   \* per adapter: events of senders parked on the full channel
    enq,       \* per adapter: arrival numbers in the order send was called
    pulled,    \* per adapter: arrival numbers in the order next_event returned
    closed,    \* per adapter: the channel has no sender left
    handling,  \* events held by spawned handle_event tasks
    sends,     \* outbound send_msg_inner calls made so far
    logged,    \* events whose handle_event error was logged by its task
    dropped,   \* <<adapter, arrival>> of the decode tasks that logged an Err
    dispatched, \* Telegram::run: the updates a decode task was spawned for, when recorded
    actions,   \* Mock.actions: the recorded sends not yet retrieved
    drains,    \* what each completed get_actions call returned, in order
    getters,   \* get_actions calls that are in their sleep
    pullPc,    \* per caller of next_event: "idle", "locking", "receiving"
    got,       \* per caller of next_event: the events returned to it
    call,      \* a single call of one of the adapters' functions: its input
    result     \* what that call returned

\* The state beside the runtime's tasks and channels.
handlerVars == << logged, dropped, dispatched >>

mockVars == << actions, drains, getters >>

pullVars == << pullPc, got >>

callVars == << call, result >>

vars == << apis, mainPc, runPc, drainPc, jobsPc, offset, req, resp, arrivals,
           spawned, queue, waiters, enq, pulled, closed, handling, sends,
           handlerVars, mockVars, pullVars, callVars >>

Adapters == 1..Len(apis)

KindOf(a) == apis[a]

\* ---------------------------------------------------------------- helpers
RECURSIVE SumOver(_, _)
SumOver(f, S) ==
    IF S = {} THEN 0
    ELSE LET x == CHOOSE y \in S : TRUE IN f[x] + SumOver(f, S \ {x})

TotalArrivals == SumOver(arrivals, Adapters)

RECURSIVE SeqsUpTo(_, _)
SeqsUpTo(S, n) ==
    IF n = 0 THEN { <<>> }
    ELSE LET shorter == SeqsUpTo(S, n - 1)
         IN  shorter \cup { Append(s, x) : s \in { t \in shorter : Len(t) = n - 1 }, x \in S }

\* ------------------------------------------------------------ domain model
\* Chat { info, api }, built by Chat::private(api, user) and
\* Chat::group(api, group): api is the adapter the chat belongs to; info (the
\* user or group id) is payload and is not kept here.
ChatOn(api) == [api |-> api]

\* The chat field of an Event::Other, which carries none.
NoChat == [api |-> 0]

\* Chat::spawn_private: Self::private(self.api.clone(), user)
SpawnPrivate(chat) == ChatOn(chat.api)

\* Chat::spawn_group: Self::group(self.api.clone(), group)
SpawnGroup(chat) == ChatOn(chat.api)

\* Chat::send_msg: self.api.send_msg(contents, self.clone())
ChatSendMsg(chat, msg) == [on |-> chat.api, src |-> msg.src, api |-> msg.chat.api]

\* Message::reply: self.chat.api.reply(contents, self.chat.clone())
MessageReply(msg) == [on |-> msg.chat.api, src |-> msg.src, api |-> msg.chat.api]

\* What a handler may send for one message: through the message's chat, as a
\* reply, or through a chat spawned from the message's chat.
HandlerSends(msg) ==
    { ChatSendMsg(msg.chat, msg), MessageReply(msg),
      ChatSendMsg(SpawnPrivate(msg.chat), msg),
      ChatSendMsg(SpawnGroup(msg.chat), msg) }

\* ------------------------------------------------- strings, UTF-16, numbers
\* A String is the sequence of its chars.  TextChars are the chars a message
\* text is made of here: one of the Basic Multilingual Plane, which UTF-16
\* encodes as one code unit, and one beyond it (say U+1F600), which UTF-16
\* encodes as a surrogate pair.
AstralChars == {"G"}

TextChars == {"a", "G"}

Strings(chars, n) == SeqsUpTo(chars, n)

Unit(kind, c) == [k |-> kind, c |-> c]

\* char::encode_utf16
CharUnits(c) ==
    IF c \in AstralChars THEN << Unit("hi", c), Unit("lo", c) >> ELSE << Unit("bmp", c) >>

\* str::encode_utf16().collect()
RECURSIVE EncodeUtf16(_)
EncodeUtf16(s) == IF s = <<>> THEN <<>> ELSE CharUnits(Head(s)) \o EncodeUtf16(Tail(s))

\* A length counted in chars (str::chars().count()) instead of code units.
CharCount(s) == Len(s)

\* str::encode_utf16().count()
Utf16Count(s) == Len(EncodeUtf16(s))

\* String::from_utf16: Err on a surrogate that is not part of a pair.
RECURSIVE FromUtf16(_)
FromUtf16(us) ==
    IF us = <<>> THEN [ok |-> TRUE, s |-> <<>>]
    ELSE IF Head(us).k = "bmp"
         THEN LET r == FromUtf16(Tail(us))
              IN  [ok |-> r.ok, s |-> IF r.ok THEN << Head(us).c >> \o r.s ELSE <<>>]
    ELSE IF Head(us).k = "hi" /\ Len(us) >= 2 /\ us[2].k = "lo"
         THEN LET r == FromUtf16(SubSeq(us, 3, Len(us)))
              IN  [ok |-> r.ok, s |-> IF r.ok THEN << Head(us).c >> \o r.s ELSE <<>>]
    ELSE [ok |-> FALSE, s |-> <<>>]

Digits == << "0", "1", "2", "3", "4", "5", "6", "7", "8", "9" >>

IsDigit(c) == \E d \in 1..10 : Digits[d] = c

DigitValue(c) == (CHOOSE d \in 1..10 : Digits[d] = c) - 1

RECURSIVE DigitsValue(_)
DigitsValue(s) ==
    IF s = <<>> THEN 0
    ELSE DigitsValue(SubSeq(s, 1, Len(s) - 1)) * 10 + DigitValue(s[Len(s)])

\* A parse that gives 0 for what is no number.
ParseIntOrZero(s) ==
    LET signed == s # <<>> /\ Head(s) \in {"+", "-"}
        body == IF signed THEN Tail(s) ELSE s
    IN  IF body = <<>> \/ \E i \in 1..Len(body) : ~IsDigit(body[i])
        THEN [ok |-> TRUE, n |-> 0]
        ELSE [ok |-> TRUE,
              n |-> IF signed /\ Head(s) = "-" THEN 0 - DigitsValue(body)
                    ELSE DigitsValue(body)]

\* str::parse::<i64>(): an optional sign, then one digit or more.
ParseInt(s) ==
    LET signed == s # <<>> /\ Head(s) \in {"+", "-"}
        body == IF signed THEN Tail(s) ELSE s
    IN  IF body = <<>> \/ \E i \in 1..Len(body) : ~IsDigit(body[i])
        THEN [ok |-> FALSE, n |-> 0]
        ELSE [ok |-> TRUE,
              n |-> IF signed /\ Head(s) = "-" THEN 0 - DigitsValue(body)
                    ELSE DigitsValue(body)]

RECURSIVE NatToString(_)
NatToString(n) ==
    IF n < 10 THEN << Digits[n + 1] >>
    ELSE NatToString(n \div 10) \o << Digits[(n % 10) + 1] >>

\* i64::to_string()
IntToString(n) == IF n < 0 THEN << "-" >> \o NatToString(0 - n) ELSE NatToString(n)

\* ------------------------------------------------ User and MessageContents
\* Option<String>
NoString == [some |-> FALSE, s |-> <<>>]

SomeString(s) == [some |-> TRUE, s |-> s]

\* User::new(id) and User::nickname(nickname)
UserNew(id) == [id |-> id, nickname |-> NoString]

UserWith(id, nickname) == [id |-> id, nickname |-> nickname]

\* User::get_nickname
GetNickname(u) == IF u.nickname.some THEN u.nickname.s ELSE <<>>

\* MessageContent::Text(s) and MessageContent::At(user)
Text(s) == [t |-> "Text", s |-> s, user |-> UserNew(<<>>)]

At(u) == [t |-> "At", s |-> <<>>, user |-> u]

\* A be_at that looks for the adapter's own user, id and nickname alike.
RECURSIVE BeAtSameUser(_, _)
BeAtSameUser(cs, self) ==
    IF cs = <<>> THEN FALSE
    ELSE IF Head(cs).t = "At" /\ Head(cs).user = self THEN TRUE
    ELSE BeAtSameUser(Tail(cs), self)

\* Message::be_at: for content in &self.contents { if At(user) and
\* user.get_id() == get_self_user().id { return true } } false
RECURSIVE BeAt(_, _)
BeAt(cs, self) ==
    IF cs = <<>> THEN FALSE
    ELSE IF Head(cs).t = "At" /\ Head(cs).user.id = self.id THEN TRUE
    ELSE BeAt(Tail(cs), self)

\* Display for MessageContent: the text, or "@{nickname} ".
RenderContent(c) ==
    IF c.t = "Text" THEN c.s ELSE << "@" >> \o GetNickname(c.user) \o << " " >>

\* Display for MessageContents
RECURSIVE Render(_)
Render(cs) == IF cs = <<>> THEN <<>> ELSE RenderContent(Head(cs)) \o Render(Tail(cs))

\* -------------------------------------- Telegram: outbound and inbound text
\* Half-open slice &v[from..to] of a Vec, 0-based; the caller has checked
\* from <= to <= len.
Slice(v, from, to) == SubSeq(v, from + 1, to)

\* format!("@{}", nickname or id)
MentionText(u) == << "@" >> \o (IF u.nickname.some THEN u.nickname.s ELSE u.id)

TextMention(id, firstName, off, len) ==
    [kind |-> "text_mention", user |-> [id |-> id, first_name |-> firstName],
     offset |-> off, length |-> len]

Mention(off, len) ==
    [kind |-> "mention", user |-> [id |-> 0, first_name |-> <<>>],
     offset |-> off, length |-> len]

\* MessageEntity::Other: get_offset and get_length are 0.
OtherEntity ==
    [kind |-> "other", user |-> [id |-> 0, first_name |-> <<>>],
     offset |-> 0, length |-> 0]

\* A loop that leaves the counter where it was after a mention.
RECURSIVE ReconstructFromNotAdvancing(_, _)
ReconstructFromNotAdvancing(cs, acc) ==
    IF cs = <<>> \/ ~acc.ok THEN acc
    ELSE LET c == Head(cs)
         IN  IF c.t = "Text"
             THEN ReconstructFromNotAdvancing(Tail(cs),
                      [acc EXCEPT !.text = @ \o c.s, !.offset = @ + Utf16Count(c.s)])
             ELSE LET m == MentionText(c.user)
                      id == ParseInt(c.user.id)
                  IN  IF ~id.ok THEN [acc EXCEPT !.ok = FALSE]
                      ELSE ReconstructFromNotAdvancing(Tail(cs),
                               [acc EXCEPT
                                  !.text = @ \o m,
                                  !.entities = Append(@, TextMention(id.n,
                                                   GetNickname(c.user), acc.offset,
                                                   Utf16Count(m)))])

\* The loop of Telegram::send_msg_inner over the contents, from the state
\* acc = (text, entities, offset); `?` leaves at the first id that does not
\* parse.
RECURSIVE ReconstructFrom(_, _)
ReconstructFrom(cs, acc) ==
    IF cs = <<>> \/ ~acc.ok THEN acc
    ELSE LET c == Head(cs)
         IN  IF c.t = "Text"
             THEN ReconstructFrom(Tail(cs),
                      [acc EXCEPT !.text = @ \o c.s, !.offset = @ + Utf16Count(c.s)])
             ELSE LET m == MentionText(c.user)
                      id == ParseInt(c.user.id)
                  IN  IF ~id.ok THEN [acc EXCEPT !.ok = FALSE]
                      ELSE ReconstructFrom(Tail(cs),
                               [acc EXCEPT
                                  !.text = @ \o m,
                                  !.entities = Append(@, TextMention(id.n,
                                                   GetNickname(c.user), acc.offset,
                                                   Utf16Count(m))),
                                  !.offset = @ + Utf16Count(m)])

\* let mut text, entities, offset = 0; for content in contents { ... }
Reconstruct(cs) ==
    ReconstructFrom(cs, [ok |-> TRUE, text |-> <<>>, entities |-> <<>>, offset |-> 0])

\* Option<&Message>: the message replied to, of which id and chat are used.
NoReply == [some |-> FALSE, id |-> <<>>]

ReplyTo(msg) == [some |-> TRUE, id |-> msg.id]

NoReplyParameters == [some |-> FALSE, message_id |-> 0]

ParseErr == [tag |-> "err", why |-> "parse"]

\* A request that carries reply_parameters on every send.
SendMsgInnerAlwaysReplying(contents, chat, reply) ==
    LET r == Reconstruct(contents)
        cid == ParseInt(chat.id)
    IN  IF ~r.ok \/ ~cid.ok THEN ParseErr
        ELSE [tag |-> "ok",
              req |-> [chat_id |-> cid.n, text |-> r.text, entities |-> r.entities,
                       reply_parameters |->
                           [some |-> TRUE, message_id |-> ParseInt(reply.id).n]]]

\* Telegram::send_msg_inner up to the SendMessageReq handed to call_api.
SendMsgInner(contents, chat, reply) ==
    LET r == Reconstruct(contents)
        rid == ParseInt(reply.id)
        cid == ParseInt(chat.id)
    IN  IF ~r.ok THEN ParseErr
        ELSE IF reply.some /\ ~rid.ok THEN ParseErr
        ELSE IF ~cid.ok THEN ParseErr
        ELSE [tag |-> "ok",
              req |-> [chat_id |-> cid.n, text |-> r.text, entities |-> r.entities,
                       reply_parameters |->
                           IF reply.some THEN [some |-> TRUE, message_id |-> rid.n]
                           ELSE NoReplyParameters]]

\* What a decode returns: the contents, an Err (logged by the task), or a
\* panic of the task (a slice out of range).
Decoded(cs) == [tag |-> "ok", contents |-> cs]

DecodeErr == [tag |-> "err", contents |-> <<>>]

DecodePanic == [tag |-> "panic", contents |-> <<>>]

\* A MessageEntity as the platform sends it: "type", offset and length (and
\* the user of a text_mention).  Any type but mention and text_mention, such
\* as bold, is deserialized to the unit variant Other (#[serde(other)]).
WireOther(type, off, len) ==
    [kind |-> type, user |-> [id |-> 0, first_name |-> <<>>], offset |-> off, length |-> len]

DeserializeEntity(w) ==
    IF w.kind \in {"mention", "text_mention"} THEN w ELSE OtherEntity

DeserializeEntities(ws) == [i \in 1..Len(ws) |-> DeserializeEntity(ws[i])]

\* last_pos = entity.get_offset() + entity.get_length()
LastPosAfter(e) == e.offset + e.length

\* A comparison of usernames that ignores case.
ResolveMentionAnyCase(self, username) ==
    LET lower(s) == [i \in 1..Len(s) |-> IF s[i] = "A" THEN "a" ELSE s[i]]
    IN  IF lower(username) = lower(GetNickname(self)) THEN self ELSE UserNew(username)

\* if username == self.self_user.get_nickname() { self_user } else { User::new(username) }
ResolveMention(self, username) ==
    IF username = GetNickname(self) THEN self ELSE UserNew(username)

\* The entity loop of Telegram::handle_update and the tail after it, over the
\* UTF-16 text us, from last_pos with the contents cs built so far.
RECURSIVE DecodeEntities(_, _, _, _, _)
DecodeEntities(self, us, ents, lastPos, cs) ==
    IF ents = <<>>
    THEN IF lastPos < Len(us)
         THEN LET t == FromUtf16(Slice(us, lastPos, Len(us)))
              IN  IF t.ok THEN Decoded(Append(cs, Text(t.s))) ELSE DecodeErr
         ELSE Decoded(cs)
    ELSE LET e == Head(ents)
             before == IF e.offset > lastPos /\ e.offset <= Len(us)
                       THEN FromUtf16(Slice(us, lastPos, e.offset))
                       ELSE [ok |-> TRUE, s |-> <<>>]
             cs1 == IF e.offset > lastPos THEN Append(cs, Text(before.s)) ELSE cs
             name == IF e.offset + 1 <= e.offset + e.length /\ e.offset + e.length <= Len(us)
                     THEN FromUtf16(Slice(us, e.offset + 1, e.offset + e.length))
                     ELSE [ok |-> TRUE, s |-> <<>>]
         IN  IF e.offset > lastPos /\ e.offset > Len(us) THEN DecodePanic
             ELSE IF ~before.ok THEN DecodeErr
             ELSE IF e.kind = "mention"
                  THEN IF e.length = 0 \/ e.offset + e.length > Len(us) THEN DecodePanic
                       ELSE IF ~name.ok THEN DecodeErr
                       ELSE DecodeEntities(self, us, Tail(ents), LastPosAfter(e),
                                Append(cs1, At(ResolveMention(self, name.s))))
             ELSE IF e.kind = "text_mention"
                  THEN DecodeEntities(self, us, Tail(ents), LastPosAfter(e),
                           Append(cs1, At(UserNew(IntToString(e.user.id)))))
             ELSE DecodeEntities(self, us, Tail(ents), LastPosAfter(e), cs1)

\* Option<Vec<MessageEntity>>
NoEntities == [some |-> FALSE, list |-> <<>>]

SomeEntities(es) == [some |-> TRUE, list |-> es]

\* A decode that takes the whole text as one segment, whatever the entities.
DecodeTextIgnoringEntities(self, text, entities) == Decoded(<< Text(text) >>)

\* Telegram::handle_update for a message with text: the contents it builds.
DecodeText(self, text, entities) ==
    IF entities.some
    THEN DecodeEntities(self, EncodeUtf16(text), entities.list, 0, <<>>)
    ELSE Decoded(<< Text(text) >>)

\* Telegram.self_user: User::new(id).nickname(username) of getMe.
SelfUser == UserWith(<< "9" >>, SomeString(<< "a" >>))

\* ------------------------------------------------------- Cli::handle_line
\* static DEFAULT_BOT_ID and the self_user of Cli::new.
DefaultBotId == << "-" >>

CliSelfUser == UserNew(DefaultBotId)

\* format!("@{} ", self.self_user.id)
BeAtText(self) == << "@" >> \o self.id \o << " " >>

\* line.match_indices(&be_at_text): the byte offsets (all chars here are one
\* byte) of the non-overlapping matches, left to right, from `from` on.
RECURSIVE MatchIndices(_, _, _)
MatchIndices(line, pat, from) ==
    IF from + Len(pat) > Len(line) THEN <<>>
    ELSE IF SubSeq(line, from + 1, from + Len(pat)) = pat
         THEN << from >> \o MatchIndices(line, pat, from + Len(pat))
         ELSE MatchIndices(line, pat, from + 1)

\* for (pos, _) in positions { ... }, from last_pos with the contents cs.
RECURSIVE LineContents(_, _, _, _, _)
LineContents(self, line, positions, lastPos, cs) ==
    IF positions = <<>> THEN cs
    ELSE LET pos == Head(positions)
             cs1 == IF pos > lastPos THEN Append(cs, Text(Slice(line, lastPos, pos)))
                    ELSE cs
         IN  LineContents(self, line, Tail(positions), pos + Len(BeAtText(self)),
                          Append(cs1, At(UserNew(self.id))))

\* Cli::handle_line for Some(line): the contents of the Message it sends.
HandleLine(self, line) ==
    LineContents(self, line, MatchIndices(line, BeAtText(self), 0), 0, <<>>)

\* The chars of a line of standard input.
LineChars == {"a", "@", "-", " "}

Lines == Strings(LineChars, MaxLineLen)

CliLineCalls == { [op |-> "handle_line", line |-> l] : l \in Lines }

\* ------------------------------------------------ OneBot11: message segments
\* enum MessageSegment, as named on the wire (tag = "type", snake_case).
SegmentTypes ==
    {"text", "face", "image", "record", "video", "at", "rps", "dice", "shake", "poke",
     "anonymous", "share", "contact", "location", "music", "reply", "forward", "node",
     "xml", "json"}

\* A segment of the JSON: its "type" and the one field of "data" that is used
\* (text of a text segment, qq of an at segment, id of a reply segment).
Segment(type, v) == [type |-> type, v |-> v]

\* Deserialize for Vec<MessageSegment>: the enum has no catch-all variant, so
\* a "type" it does not name is an error of the whole document.
DeserializeSegments(ws) ==
    IF \E i \in 1..Len(ws) : ws[i].type \notin SegmentTypes
    THEN [ok |-> FALSE, list |-> <<>>]
    ELSE [ok |-> TRUE, list |-> ws]

\* for msg in message { match msg { Text => .., At => .., _ => () } }
RECURSIVE SegmentContents(_)
SegmentContents(segs) ==
    IF segs = <<>> THEN <<>>
    ELSE (CASE Head(segs).type = "text" -> << Text(Head(segs).v) >>
            [] Head(segs).type = "at" -> << At(UserNew(Head(segs).v)) >>
            [] OTHER -> <<>>) \o SegmentContents(Tail(segs))

\* OneBot11::handle_ws_msg for a text frame that holds a private message:
\* the contents of the Message it sends, or the Err of serde_json::from_str.
HandleWsMsgContents(ws) ==
    LET d == DeserializeSegments(ws)
    IN  IF d.ok THEN Decoded(SegmentContents(d.list)) ELSE DecodeErr

\* Chat::is_private: the chat's info is ChatInfo::Private.
IsPrivate(chat) == chat.type = "private"

\* The elements pushed for the contents, in their order.
RECURSIVE ContentSegments(_, _)
ContentSegments(cs, chat) ==
    IF cs = <<>> THEN <<>>
    ELSE LET c == Head(cs)
         IN  (IF c.t = "Text" THEN << Segment("text", c.s) >>
              ELSE << IF IsPrivate(chat) THEN Segment("text", GetNickname(c.user))
                      ELSE Segment("at", c.user.id),
                      Segment("text", << " " >>) >>)
                 \o ContentSegments(Tail(cs), chat)

\* A request whose reply segment comes after the contents.
GatewaySendMsgInnerReplyLast(contents, chat, reply) ==
    LET message == ContentSegments(contents, chat)
                       \o (IF reply.some THEN << Segment("reply", reply.id) >> ELSE <<>>)
        id == ParseInt(chat.id)
    IN  IF ~id.ok THEN ParseErr
        ELSE [tag |-> "ok",
              req |-> [kind |-> chat.type, id |-> id.n, message |-> message]]

\* OneBot11::send_msg_inner up to the SendMsgReq handed to call_api.
GatewaySendMsgInner(contents, chat, reply) ==
    LET message == (IF reply.some THEN << Segment("reply", reply.id) >> ELSE <<>>)
                       \o ContentSegments(contents, chat)
        id == ParseInt(chat.id)
    IN  IF ~id.ok THEN ParseErr
        ELSE [tag |-> "ok",
              req |-> [kind |-> chat.type, id |-> id.n, message |-> message]]

\* --------------------------------------------------------------- raw input
\* What a raw update / frame holds, as far as decoding goes: a text message,
\* or something that is no message and gives no event (Ok(())).
Bodies == {"message", "none"}

\* Damaged payloads.  Of Telegram: a message whose entity begins between the
\* two code units of a surrogate pair.  Of OneBot11: a frame that is no text
\* frame, a text that is no JSON of an Event, a group message without
\* group_id.
DamagedUpdateBodies == {"split"}

DamagedFrameBodies == {"binary", "malformed", "group_no_id"}

Updates == [id : 1..MaxUpdateId, body : Bodies]

Batches == SeqsUpTo(Updates, MaxBatch)

NoResp == [tag |-> "none", updates |-> <<>>]

ErrResp == [tag |-> "err", updates |-> <<>>]

OkResp(batch) == [tag |-> "ok", updates |-> batch]

\* The record of dispatched updates: <<adapter, update id>> of every update a
\* decode task was spawned for, in the order of the spawns.  It is kept only
\* in the runs that start with the record switched on.
NoRecord == [on |-> FALSE, ids |-> << >>]

EmptyRecord == [on |-> TRUE, ids |-> << >>]

Recorded(a, ups) ==
    IF dispatched.on
    THEN [dispatched EXCEPT !.ids = @ \o [i \in 1..Len(ups) |-> << a, ups[i].id >>]]
    ELSE dispatched

\* A spawned decode task and the raw item it owns.
Item(n, body, chat) == [n |-> n, body |-> body, chat |-> chat]

MessageEvent(a, n, chat) == [src |-> a, n |-> n, kind |-> "Message", chat |-> chat]

OtherEvent(a, n) == [src |-> a, n |-> n, kind |-> "Other", chat |-> NoChat]

\* The text and entities of a "split" update: the pair of one astral char,
\* and a mention at offset 1.
SplitPairText == << "G" >>

SplitPairEntities == SomeEntities(<< Mention(1, 1) >>)

\* Telegram::handle_update as the task sees it: "sent" (an event went to
\* event_tx.send), "ok" (Ok(()) without an event) or "err" (Err or panic).
HandleUpdateResult(it) ==
    IF it.body = "none" THEN "ok"
    ELSE LET d == IF it.body = "split"
                  THEN DecodeText(SelfUser, SplitPairText, SplitPairEntities)
                  ELSE DecodeText(SelfUser, << "a" >>, NoEntities)
         IN  IF d.tag = "ok" THEN "sent" ELSE "err"

\* Telegram::handle_update: the events it sends.
HandleUpdate(a, it) ==
    IF HandleUpdateResult(it) = "sent" THEN { MessageEvent(a, it.n, ChatOn(a)) } ELSE {}

\* A tungstenite frame and the JSON of its text, as far as handle_ws_msg
\* tells them apart.
Frame(body) ==
    [text |-> body # "binary",
     json |-> body \notin {"binary", "malformed"},
     message |-> body \in {"message", "group_no_id"},
     group |-> body = "group_no_id",
     group_id |-> FALSE]

\* OneBot11::handle_ws_msg as the task sees it, in the order of its checks.
HandleWsMsgResult(it) ==
    LET f == Frame(it.body)
    IN  IF ~f.text THEN "err"
        ELSE IF ~f.json THEN "err"
        ELSE IF ~f.message THEN "ok"
        ELSE IF f.group /\ ~f.group_id THEN "err"
        ELSE "sent"

\* A decoder that builds every chat on the adapter registered first.
HandleWsMsgOnFirst(a, it) ==
    IF it.body = "message" THEN { MessageEvent(a, it.n, ChatOn(1)) } ELSE {}

\* OneBot11::handle_ws_msg: the events it sends.
HandleWsMsg(a, it) ==
    IF HandleWsMsgResult(it) = "sent" THEN { MessageEvent(a, it.n, ChatOn(a)) } ELSE {}

\* The task of Mock::happen sends the event it was given.
HappenEvent(a, it) ==
    IF it.body = "message" THEN { MessageEvent(a, it.n, it.chat) }
    ELSE { OtherEvent(a, it.n) }

Decode(a, it) ==
    CASE KindOf(a) = "Telegram" -> HandleUpdate(a, it)
      [] KindOf(a) = "OneBot11" -> HandleWsMsg(a, it)
      [] OTHER -> HappenEvent(a, it)

\* The task's `if let Err(err) = ... { tracing::error!(..) }` has an Err to
\* log (the tasks of Cli and Mock have none).
DecodeErrs(a, it) ==
    CASE KindOf(a) = "Telegram" -> HandleUpdateResult(it) = "err"
      [] KindOf(a) = "OneBot11" -> HandleWsMsgResult(it) = "err"
      [] OTHER -> FALSE

\* ------------------------------------------------------------- the channel
\* event_tx.send(e).await: the value enters the buffer when a permit is free,
\* otherwise the sender parks at the end of the wait list.
SendEffect(a, e) ==
    /\ enq' = [enq EXCEPT ![a] = Append(@, e.n)]
    /\ IF Len(queue[a]) < QueueCapacity
       THEN /\ queue' = [queue EXCEPT ![a] = Append(@, e)]
            /\ UNCHANGED waiters
       ELSE /\ waiters' = [waiters EXCEPT ![a] = Append(@, e)]
            /\ UNCHANGED queue

\* A wake-up order the channel does not have: the permit goes to the sender
\* parked last.
RecvLastParked(q, w) ==
    IF w = <<>> THEN [queue |-> Tail(q), waiters |-> w]
    ELSE [queue |-> Append(Tail(q), w[Len(w)]), waiters |-> SubSeq(w, 1, Len(w) - 1)]

\* events.recv(): the head of the buffer is taken and the freed permit goes
\* to the sender parked first, whose value enters the buffer.
Recv(q, w) ==
    IF w = <<>> THEN [queue |-> Tail(q), waiters |-> w]
    ELSE [queue |-> Append(Tail(q), Head(w)), waiters |-> Tail(w)]

\* ------------------------------------------------------------------- Init
\* The callers of next_event on one adapter: the drain loop of BotMaid::run
\* and one more task holding the adapter's Arc (run_jobs is given all of
\* them, a handler reaches it through Message::get_api).
Pullers == {"drain", "jobs"}

NoCall == [op |-> "none"]

NoResult == [tag |-> "none"]

\* No handler error logged, a Mock with no recorded send and no get_actions
\* call, no call of next_event.
SideTasksIdle(record) ==
    /\ logged = {}
    /\ dropped = {}
    /\ dispatched = record
    /\ actions = <<>>
    /\ drains = <<>>
    /\ getters = 0
    /\ pullPc = [p \in Pullers |-> "idle"]
    /\ got = [p \in Pullers |-> <<>>]

NoSideTasks == SideTasksIdle(NoRecord)

\* ... and no single call under study.
NothingElse ==
    /\ NoSideTasks
    /\ call = NoCall
    /\ result = NoResult

\* BotMaid::new(instance) with the adapters cfg added, before run().
Built(cfg) ==
    /\ apis = cfg
    /\ mainPc = "start"
    /\ runPc = [a \in Adapters |-> "idle"]
    /\ drainPc = [a \in Adapters |-> "idle"]
    /\ jobsPc = "idle"
    /\ offset = [a \in Adapters |-> 0]
    /\ req = [a \in Adapters |-> [offset |-> 0, timeout |-> 0]]
    /\ resp = [a \in Adapters |-> NoResp]
    /\ arrivals = [a \in Adapters |-> 0]
    /\ spawned = [a \in Adapters |-> {}]
    /\ queue = [a \in Adapters |-> <<>>]
    /\ waiters = [a \in Adapters |-> <<>>]
    /\ enq = [a \in Adapters |-> <<>>]
    /\ pulled = [a \in Adapters |-> <<>>]
    /\ closed = [a \in Adapters |-> FALSE]
    /\ handling = {}
    /\ sends = {}

StartPc(k) ==
    CASE k = "Telegram" -> "boot"
      [] k = "OneBot11" -> "connect"
      [] k = "Cli" -> "read"
      [] k = "Mock" -> "start"
      [] OTHER -> "running"

Init ==
    /\ apis \in Configs
    /\ mainPc = "start"
    /\ runPc = [a \in Adapters |-> "idle"]
    /\ drainPc = [a \in Adapters |-> "idle"]
    /\ jobsPc = "idle"
    /\ offset = [a \in Adapters |-> 0]
    /\ req = [a \in Adapters |-> [offset |-> 0, timeout |-> 0]]
    /\ resp = [a \in Adapters |-> NoResp]
    /\ arrivals = [a \in Adapters |-> 0]
    /\ spawned = [a \in Adapters |-> {}]
    /\ queue = [a \in Adapters |-> <<>>]
    /\ waiters = [a \in Adapters |-> <<>>]
    /\ enq = [a \in Adapters |-> <<>>]
    /\ pulled = [a \in Adapters |-> <<>>]
    /\ closed = [a \in Adapters |-> FALSE]
    /\ handling = {}
    /\ sends = {}
    /\ NothingElse

\* ------------------------------------------------------------ BotMaid::run
\* Spawns run() and the drain loop of every adapter and the jobs task into the
\* JoinSet, then waits in join_all.
BotMaidRun ==
    /\ mainPc = "start"
    /\ mainPc' = "join"
    /\ runPc' = [a \in Adapters |-> StartPc(KindOf(a))]
    /\ drainPc' = [a \in Adapters |-> "pull"]
    /\ jobsPc' = "running"
    /\ UNCHANGED << handlerVars, mockVars, pullVars, callVars, apis, offset, req, resp, arrivals, spawned, queue, waiters,
                    enq, pulled, closed, handling, sends >>

\* instance.run_jobs(&apis) returns (Ok or Err, the latter is logged).
JobsReturn ==
    /\ jobsPc = "running"
    /\ jobsPc' = "done"
    /\ UNCHANGED << handlerVars, mockVars, pullVars, callVars, apis, mainPc, runPc, drainPc, offset, req, resp, arrivals,
                    spawned, queue, waiters, enq, pulled, closed, handling, sends >>

\* join_set.join_all().await completes when every task of the JoinSet has.
JoinAllDone ==
    /\ jobsPc = "done"
    /\ \A a \in Adapters : runPc[a] = "returned" /\ drainPc[a] = "done"

BotMaidReturn ==
    /\ mainPc = "join"
    /\ JoinAllDone
    /\ mainPc' = "returned"
    /\ UNCHANGED << handlerVars, mockVars, pullVars, callVars, apis, runPc, drainPc, jobsPc, offset, req, resp, arrivals,
                    spawned, queue, waiters, enq, pulled, closed, handling, sends >>

\* A drain loop that takes the next event only once no handling task is left.
NextEventWaiting(a) ==
    /\ drainPc[a] = "pull"
    /\ queue[a] # <<>>
    /\ handling = {}
    /\ pulled' = [pulled EXCEPT ![a] = Append(@, Head(queue[a]).n)]
    /\ handling' = handling \cup { Head(queue[a]) }
    /\ queue' = [queue EXCEPT ![a] = Recv(queue[a], waiters[a]).queue]
    /\ waiters' = [waiters EXCEPT ![a] = Recv(queue[a], waiters[a]).waiters]
    /\ runPc' = IF runPc[a] = "push" THEN [runPc EXCEPT ![a] = "read"] ELSE runPc
    /\ UNCHANGED << handlerVars, mockVars, pullVars, callVars, apis, mainPc, drainPc,
                    jobsPc, offset, req, resp, arrivals, spawned, enq, closed, sends >>

\* One iteration of the drain loop: next_event returns Some(event) and the
\* handling task is spawned.  When the parked sender that receives the permit
\* is Cli::run itself (inside handle_line), it resumes reading.
NextEvent(a) ==
    /\ drainPc[a] = "pull"
    /\ queue[a] # <<>>
    /\ pulled' = [pulled EXCEPT ![a] = Append(@, Head(queue[a]).n)]
    /\ handling' = handling \cup { Head(queue[a]) }
    /\ queue' = [queue EXCEPT ![a] = Recv(queue[a], waiters[a]).queue]
    /\ waiters' = [waiters EXCEPT ![a] = Recv(queue[a], waiters[a]).waiters]
    /\ runPc' = IF runPc[a] = "push" THEN [runPc EXCEPT ![a] = "read"] ELSE runPc
    /\ UNCHANGED << handlerVars, mockVars, pullVars, callVars, apis, mainPc, drainPc, jobsPc, offset, req, resp, arrivals,
                    spawned, enq, closed, sends >>

\* An end of stream that takes the drain loop of every adapter down with it.
DrainEndAll(a) ==
    /\ drainPc[a] = "pull"
    /\ closed[a]
    /\ queue[a] = <<>>
    /\ drainPc' = [b \in Adapters |-> "done"]
    /\ UNCHANGED << handlerVars, mockVars, pullVars, callVars, apis, mainPc, runPc, jobsPc, offset, req, resp, arrivals,
                    spawned, queue, waiters, enq, pulled, closed, handling, sends >>

\* next_event returns None (the channel is closed and empty): `while let`
\* ends and this drain task finishes.
DrainEnd(a) ==
    /\ drainPc[a] = "pull"
    /\ closed[a]
    /\ queue[a] = <<>>
    /\ drainPc' = [drainPc EXCEPT ![a] = "done"]
    /\ UNCHANGED << handlerVars, mockVars, pullVars, callVars, apis, mainPc, runPc, jobsPc, offset, req, resp, arrivals,
                    spawned, queue, waiters, enq, pulled, closed, handling, sends >>

\* handle_event in its own task: a Message goes to handle_msg, which may send
\* through the message's chat; an Other event is Ok(()).
HandleEvent(e) ==
    /\ e \in handling
    /\ handling' = handling \ {e}
    /\ IF e.kind = "Message"
       THEN \/ UNCHANGED sends
            \/ \E s \in HandlerSends(e) : sends' = sends \cup {s}
       ELSE UNCHANGED sends
    /\ UNCHANGED << handlerVars, mockVars, pullVars, callVars, apis, mainPc, runPc, drainPc, jobsPc, offset, req, resp,
                    arrivals, spawned, queue, waiters, enq, pulled, closed >>

\* A handler error that ends the drain loop which spawned the task.
HandleEventErrEscaping(e) ==
    /\ e \in handling
    /\ e.kind = "Message"
    /\ handling' = handling \ {e}
    /\ logged' = logged \cup {e}
    /\ UNCHANGED << dropped, dispatched >>
    /\ drainPc' = [drainPc EXCEPT ![e.src] = "done"]
    /\ UNCHANGED << mockVars, pullVars, callVars, apis, mainPc, runPc, jobsPc, offset,
                    req, resp, arrivals, spawned, queue, waiters, enq, pulled, closed,
                    sends >>

\* handle_msg returns Err: `if let Err(err) = self_clone.handle_event(event)`
\* logs it with tracing::error! and the task ends.
HandleEventErr(e) ==
    /\ e \in handling
    /\ e.kind = "Message"
    /\ handling' = handling \ {e}
    /\ logged' = logged \cup {e}
    /\ UNCHANGED << dropped, dispatched >>
    /\ UNCHANGED << mockVars, pullVars, callVars, apis, mainPc, runPc, drainPc, jobsPc,
                    offset, req, resp, arrivals, spawned, queue, waiters, enq, pulled,
                    closed, sends >>

\* next_event is called: self.event_rx.lock().await is pending.
NextEventCall(p) ==
    /\ p = "drain" => drainPc[1] = "pull"
    /\ p = "jobs" => jobsPc = "running"
    /\ pullPc[p] = "idle"
    /\ pullPc' = [pullPc EXCEPT ![p] = "locking"]
    /\ UNCHANGED got
    /\ UNCHANGED << handlerVars, mockVars, callVars, apis, mainPc, runPc, drainPc,
                    jobsPc, offset, req, resp, arrivals, spawned, queue, waiters, enq,
                    pulled, closed, handling, sends >>

\* A receiver that is entered without waiting for the caller inside.
NextEventLockUnguarded(p) ==
    /\ pullPc[p] = "locking"
    /\ pullPc' = [pullPc EXCEPT ![p] = "receiving"]
    /\ UNCHANGED got
    /\ UNCHANGED << handlerVars, mockVars, callVars, apis, mainPc, runPc, drainPc,
                    jobsPc, offset, req, resp, arrivals, spawned, queue, waiters, enq,
                    pulled, closed, handling, sends >>

\* The tokio Mutex around the Receiver is granted: no other caller holds it.
NextEventLock(p) ==
    /\ pullPc[p] = "locking"
    /\ \A q \in Pullers : pullPc[q] # "receiving"
    /\ pullPc' = [pullPc EXCEPT ![p] = "receiving"]
    /\ UNCHANGED got
    /\ UNCHANGED << handlerVars, mockVars, callVars, apis, mainPc, runPc, drainPc,
                    jobsPc, offset, req, resp, arrivals, spawned, queue, waiters, enq,
                    pulled, closed, handling, sends >>

\* events.recv().await returns Some(event) to the caller holding the lock,
\* which is released as next_event returns.  The drain loop then spawns the
\* handling task; another caller keeps the event.
NextEventRecv(p) ==
    /\ pullPc[p] = "receiving"
    /\ queue[1] # <<>>
    /\ pullPc' = [pullPc EXCEPT ![p] = "idle"]
    /\ got' = [got EXCEPT ![p] = Append(@, Head(queue[1]).n)]
    /\ pulled' = [pulled EXCEPT ![1] = Append(@, Head(queue[1]).n)]
    /\ handling' = IF p = "drain" THEN handling \cup { Head(queue[1]) } ELSE handling
    /\ queue' = [queue EXCEPT ![1] = Recv(queue[1], waiters[1]).queue]
    /\ waiters' = [waiters EXCEPT ![1] = Recv(queue[1], waiters[1]).waiters]
    /\ runPc' = IF runPc[1] = "push" THEN [runPc EXCEPT ![1] = "read"] ELSE runPc
    /\ UNCHANGED << handlerVars, mockVars, callVars, apis, mainPc, drainPc, jobsPc,
                    offset, req, resp, arrivals, spawned, enq, closed, sends >>

\* A decode task whose failure ends the loop that spawned it and the tasks
\* spawned beside it.
TaskRunAborting(a, it) ==
    /\ it \in spawned[a]
    /\ IF DecodeErrs(a, it)
       THEN /\ spawned' = [spawned EXCEPT ![a] = {}]
            /\ runPc' = [runPc EXCEPT ![a] = "returned"]
            /\ dropped' = dropped \cup { << a, it.n >> }
            /\ UNCHANGED << queue, waiters, enq >>
       ELSE /\ spawned' = [spawned EXCEPT ![a] = @ \ {it}]
            /\ UNCHANGED << runPc, dropped >>
            /\ IF Decode(a, it) = {}
               THEN UNCHANGED << queue, waiters, enq >>
               ELSE SendEffect(a, CHOOSE e \in Decode(a, it) : TRUE)
    /\ UNCHANGED << logged, dispatched, mockVars, pullVars, callVars, apis, mainPc, drainPc, jobsPc,
                    offset, req, resp, arrivals, pulled, closed, handling, sends >>

\* A spawned decode task runs: it decodes its item and, if that gives an
\* event, calls event_tx.send; an Err is logged and the task ends.
TaskRun(a, it) ==
    /\ it \in spawned[a]
    /\ spawned' = [spawned EXCEPT ![a] = @ \ {it}]
    /\ IF Decode(a, it) = {}
       THEN UNCHANGED << queue, waiters, enq >>
       ELSE SendEffect(a, CHOOSE e \in Decode(a, it) : TRUE)
    /\ dropped' = IF DecodeErrs(a, it) THEN dropped \cup { << a, it.n >> } ELSE dropped
    /\ UNCHANGED << logged, dispatched, mockVars, pullVars, callVars, apis, mainPc, runPc, drainPc,
                    jobsPc, offset, req, resp, arrivals, pulled, closed, handling, sends >>

\* ------------------------------------------- single calls on a Telegram
Texts == Strings(TextChars, MaxTextLen)

\* Users a handler mentions: ids that are decimal numbers in and out of
\* canonical form and one that is no number, with and without a nickname.
Users ==
    { UserWith(id, nick) : id \in { << "5" >>, << "0", "5" >>, << "a" >> },
                           nick \in { NoString, SomeString(<< "G" >>) } }

\* Chat info handed to send_msg_inner, and the messages replied to.
TgChat(type, id) == [type |-> type, id |-> id]

TgChats == { TgChat("private", << "5" >>), TgChat("group", << "a" >>) }

TgMessages == { [id |-> id, chat |-> c] : id \in { << "7" >>, << "a" >> }, c \in TgChats }

\* The contents sent: text, mention, text; a text alone; mention, text,
\* mention.
SentContents ==
    { << Text(a), At(u), Text(b) >> : a \in Texts, u \in Users, b \in Texts }
        \cup { << Text(a) >> : a \in Texts }
        \cup { << At(u), Text(a), At(u) >> : u \in Users, a \in Texts }

\* Entities as a server may send them on a text: any kind, at any offset up
\* to one past the text, of any length up to MaxTextLen.
WireEntities ==
    { TextMention(5, <<>>, o, l) : o \in 0..(2 * MaxTextLen + 1), l \in 0..MaxTextLen }
        \cup { Mention(o, l) : o \in 0..(2 * MaxTextLen + 1), l \in 0..MaxTextLen }
        \cup { OtherEntity }

NoMsg == [id |-> <<>>, chat |-> TgChat("private", <<>>)]

LongPollCalls ==
    { [op |-> "send_msg", contents |-> cs, chat |-> c] :
          cs \in SentContents, c \in { TgChat("private", << "5" >>) } }
        \cup { [op |-> "send_msg", contents |-> << Text(<< "a" >>) >>, chat |-> c] :
                  c \in TgChats }
        \cup { [op |-> "reply_to_msg", contents |-> << Text(<< "a" >>) >>, msg |-> m] :
                  m \in TgMessages }
        \cup { [op |-> "handle_update", text |-> t, entities |-> SomeEntities(<< e >>),
                sent |-> <<>>] : t \in Texts, e \in WireEntities }
        \cup { [op |-> "handle_update", text |-> t, entities |-> NoEntities,
                sent |-> <<>>] : t \in Texts }

\* Updates whose message has a text and up to two entities, each within the
\* text and one or two UTF-16 units long: mentions by name, mentions by id and
\* bold ranges, in any order.
WalkChars == {"a", "A", "G"}

WalkTexts == Strings(WalkChars, MaxTextLen)

WalkEntities(t) ==
    LET n == Utf16Count(t)
        ranges == { r \in (0..n) \X (1..2) : r[1] + r[2] <= n }
    IN  { Mention(r[1], r[2]) : r \in ranges }
            \cup { TextMention(5, <<>>, r[1], r[2]) : r \in ranges }
            \cup { WireOther("bold", r[1], r[2]) : r \in ranges }

WalkEntityLists(t) ==
    { <<>> } \cup { << e >> : e \in WalkEntities(t) }
        \cup { << e, f >> : e \in WalkEntities(t), f \in WalkEntities(t) }

EntityWalkCalls(texts) ==
    UNION { { [op |-> "handle_update", text |-> t, wire |-> ws,
               entities |-> SomeEntities(DeserializeEntities(ws)), sent |-> <<>>] :
                  ws \in WalkEntityLists(t) } : t \in texts }

\* BotAPI::send_msg: self.send_msg_inner(contents, chat, None)
BotApiSendMsg ==
    /\ call.op = "send_msg"
    /\ call' = [op |-> "send_msg_inner", contents |-> call.contents, chat |-> call.chat,
                reply |-> NoReply, via |-> "send_msg", msg |-> NoMsg]
    /\ UNCHANGED result
    /\ UNCHANGED << handlerVars, mockVars, pullVars, apis, mainPc, runPc, drainPc,
                    jobsPc, offset, req, resp, arrivals, spawned, queue, waiters, enq,
                    pulled, closed, handling, sends >>

\* BotAPI::reply_to_msg: self.send_msg_inner(contents,
\* reply_to_message.get_chat().clone(), Some(reply_to_message))
BotApiReplyToMsg ==
    /\ call.op = "reply_to_msg"
    /\ call' = [op |-> "send_msg_inner", contents |-> call.contents,
                chat |-> call.msg.chat, reply |-> ReplyTo(call.msg),
                via |-> "reply_to_msg", msg |-> call.msg]
    /\ UNCHANGED result
    /\ UNCHANGED << handlerVars, mockVars, pullVars, apis, mainPc, runPc, drainPc,
                    jobsPc, offset, req, resp, arrivals, spawned, queue, waiters, enq,
                    pulled, closed, handling, sends >>

\* Telegram::send_msg_inner builds its request (or leaves with Err).
TgSendMsgInner ==
    /\ call.op = "send_msg_inner"
    /\ result = NoResult
    /\ result' = SendMsgInner(call.contents, call.chat, call.reply)
    /\ UNCHANGED call
    /\ UNCHANGED << handlerVars, mockVars, pullVars, apis, mainPc, runPc, drainPc,
                    jobsPc, offset, req, resp, arrivals, spawned, queue, waiters, enq,
                    pulled, closed, handling, sends >>

\* The platform delivers the message just sent, text and entities as sent,
\* in an update to a bot of that chat.
TgEcho ==
    /\ call.op = "send_msg_inner"
    /\ result.tag = "ok"
    /\ call' = [op |-> "handle_update", text |-> result.req.text,
                entities |-> SomeEntities(result.req.entities), sent |-> call.contents]
    /\ result' = NoResult
    /\ UNCHANGED << handlerVars, mockVars, pullVars, apis, mainPc, runPc, drainPc,
                    jobsPc, offset, req, resp, arrivals, spawned, queue, waiters, enq,
                    pulled, closed, handling, sends >>

\* Telegram::handle_update decodes the text of the update's message.
TgHandleUpdate ==
    /\ call.op = "handle_update"
    /\ result = NoResult
    /\ result' = DecodeText(SelfUser, call.text, call.entities)
    /\ UNCHANGED call
    /\ UNCHANGED << handlerVars, mockVars, pullVars, apis, mainPc, runPc, drainPc,
                    jobsPc, offset, req, resp, arrivals, spawned, queue, waiters, enq,
                    pulled, closed, handling, sends >>

\* ------------------------------------------------- single calls on a Cli
\* handle_line builds the contents of its Message.
CliHandleLine ==
    /\ call.op = "handle_line"
    /\ result = NoResult
    /\ result' = Decoded(HandleLine(CliSelfUser, call.line))
    /\ UNCHANGED call
    /\ UNCHANGED << handlerVars, mockVars, pullVars, apis, mainPc, runPc, drainPc,
                    jobsPc, offset, req, resp, arrivals, spawned, queue, waiters, enq,
                    pulled, closed, handling, sends >>

\* ------------------------------------------- be_at on a decoded message
\* Updates whose text is made of a letter of the adapter's username, another
\* letter and the digit of its id, with up to two mentions, by name or by id
\* (the adapter's or another), each one or two UTF-16 units long.
SelfMentionChars == {"a", "b", "9"}

SelfMentionEntities(t) ==
    LET n == Utf16Count(t)
        ranges == { r \in (0..n) \X (1..2) : r[1] + r[2] <= n }
    IN  { Mention(r[1], r[2]) : r \in ranges }
            \cup { TextMention(id, <<>>, r[1], r[2]) : id \in {5, 9}, r \in ranges }

SelfMentionCalls(texts) ==
    UNION { { [op |-> "handle_update", text |-> t, wire |-> ws,
               entities |-> SomeEntities(ws), sent |-> <<>>] :
                  ws \in { <<>> } \cup { << e >> : e \in SelfMentionEntities(t) }
                          \cup { << e, f >> : e \in SelfMentionEntities(t),
                                             f \in SelfMentionEntities(t) } } :
            t \in texts }

\* get_self_user() of the adapter that decoded the message of the call.
DecoderSelfUser == IF call.op = "handle_line" THEN CliSelfUser ELSE SelfUser

\* The handler calls be_at on the Message built from the decoded contents.
MessageBeAt ==
    /\ result # NoResult
    /\ result.tag = "ok"
    /\ "be_at" \notin DOMAIN result
    /\ result' = [tag |-> "ok", contents |-> result.contents,
                  be_at |-> BeAt(result.contents, DecoderSelfUser)]
    /\ UNCHANGED call
    /\ UNCHANGED << handlerVars, mockVars, pullVars, apis, mainPc, runPc, drainPc,
                    jobsPc, offset, req, resp, arrivals, spawned, queue, waiters, enq,
                    pulled, closed, handling, sends >>

\* --------------------------------------------- single frames of a OneBot11
\* Message frames whose segments are texts, at segments, a face, and a
\* segment of a type the enum does not name.
FrameSegments ==
    { Segment("text", << "a" >>), Segment("at", << "5" >>), Segment("face", << "1" >>),
      Segment("mface", << "1" >>) }

GatewayFrameCalls ==
    { [op |-> "handle_ws_msg", message |-> ws] : ws \in SeqsUpTo(FrameSegments, MaxSegments) }

\* handle_ws_msg decodes the frame and builds the contents of its Message.
ObHandleWsMsg ==
    /\ call.op = "handle_ws_msg"
    /\ result = NoResult
    /\ result' = HandleWsMsgContents(call.message)
    /\ UNCHANGED call
    /\ UNCHANGED << handlerVars, mockVars, pullVars, apis, mainPc, runPc, drainPc,
                    jobsPc, offset, req, resp, arrivals, spawned, queue, waiters, enq,
                    pulled, closed, handling, sends >>

\* ---------------------------------------------- single sends on a OneBot11
\* Contents of up to MaxSegments texts and mentions, sent to a private chat,
\* to a group, or to a group whose id is no number, or in reply to a message.
GatewayPieces ==
    { Text(<< "a" >>), Text(<< " " >>), At(UserNew(<< "5" >>)),
      At(UserWith(<< "5" >>, SomeString(<< "G" >>))) }

GatewayChats ==
    { TgChat("private", << "5" >>), TgChat("group", << "7" >>), TgChat("group", << "a" >>) }

GatewaySendCalls ==
    { [op |-> "send_msg", contents |-> cs, chat |-> c] :
          cs \in SeqsUpTo(GatewayPieces, MaxSegments), c \in GatewayChats }
        \cup { [op |-> "reply_to_msg", contents |-> cs, msg |-> [id |-> << "7" >>, chat |-> c]] :
                  cs \in SeqsUpTo(GatewayPieces, MaxSegments), c \in GatewayChats }

\* OneBot11::send_msg_inner builds its request (or leaves with Err).
ObSendMsgInner ==
    /\ call.op = "send_msg_inner"
    /\ result = NoResult
    /\ result' = GatewaySendMsgInner(call.contents, call.chat, call.reply)
    /\ UNCHANGED call
    /\ UNCHANGED << handlerVars, mockVars, pullVars, apis, mainPc, runPc, drainPc,
                    jobsPc, offset, req, resp, arrivals, spawned, queue, waiters, enq,
                    pulled, closed, handling, sends >>

\* -------------------------------------- single sends through either adapter
\* Ids as a handler may hold them: the decimal form of a number, and a
\* username taken from a mention by name.
OutboundIds == { << "5" >>, << "a" >> }

OutboundContents ==
    { << Text(<< "a" >>) >> }
        \cup { << Text(<< "a" >>), At(UserNew(id)) >> : id \in OutboundIds }
        \cup { << At(UserWith(id, SomeString(<< "G" >>))), Text(<< "a" >>) >> :
                  id \in OutboundIds }

OutboundCalls ==
    { [op |-> "send_msg_inner", api |-> a, contents |-> cs, chat |-> TgChat(type, cid),
       reply |-> r, via |-> IF r.some THEN "reply_to_msg" ELSE "send_msg",
       msg |-> IF r.some THEN [id |-> r.id, chat |-> TgChat(type, cid)] ELSE NoMsg] :
          a \in 1..2, cs \in OutboundContents, type \in {"private", "group"},
          cid \in OutboundIds,
          r \in { NoReply } \cup { ReplyTo([id |-> mid]) : mid \in OutboundIds } }

\* chat.api.send_msg_inner(..): the implementation of the chat's adapter
\* runs up to the request it hands to call_api, or leaves with Err before.
ApiSendMsgInner ==
    /\ call.op = "send_msg_inner"
    /\ result = NoResult
    /\ result' = IF KindOf(call.api) = "Telegram"
                 THEN SendMsgInner(call.contents, call.chat, call.reply)
                 ELSE GatewaySendMsgInner(call.contents, call.chat, call.reply)
    /\ UNCHANGED call
    /\ UNCHANGED << handlerVars, mockVars, pullVars, apis, mainPc, runPc, drainPc,
                    jobsPc, offset, req, resp, arrivals, spawned, queue, waiters, enq,
                    pulled, closed, handling, sends >>

\* ----------------------------------------------------------- Telegram::run
\* An offset that follows the last update of the batch instead of the largest.
AdvanceOffsetToLast(off, ups) == IF ups = <<>> THEN off ELSE ups[Len(ups)].id

\* for update in updates { if update.update_id > offset { offset = ... } }
RECURSIVE AdvanceOffset(_, _)
AdvanceOffset(off, ups) ==
    IF ups = <<>> THEN off
    ELSE AdvanceOffset(IF Head(ups).id > off THEN Head(ups).id ELSE off, Tail(ups))

\* The update ids of a batch.
UpdateIds(ups) == { ups[i].id : i \in 1..Len(ups) }

\* The tasks the polling loop spawns for a batch, one per update, numbered in
\* the order of the batch after the n0 items accepted before.
BatchItems(n0, ups) ==
    { Item(n0 + i, ups[i].body, NoChat) : i \in 1..Len(ups) }

\* Top of the outer loop: `let mut offset = 0` and the bootstrap getUpdates.
TgBootCall(a) ==
    /\ KindOf(a) = "Telegram"
    /\ runPc[a] = "boot"
    /\ offset' = [offset EXCEPT ![a] = 0]
    /\ req' = [req EXCEPT ![a] = [offset |-> BootstrapOffset, timeout |-> BootstrapTimeout]]
    /\ runPc' = [runPc EXCEPT ![a] = "bootWait"]
    /\ UNCHANGED << handlerVars, mockVars, pullVars, callVars, apis, mainPc, drainPc, jobsPc, resp, arrivals, spawned, queue,
                    waiters, enq, pulled, closed, handling, sends >>

\* The call in flight resolves: Err (transport or API error) or Ok(updates),
\* with whatever updates the server chooses to return.
TgRespond(a) ==
    /\ KindOf(a) = "Telegram"
    /\ runPc[a] \in {"bootWait", "pollWait"}
    /\ resp[a] = NoResp
    /\ \/ resp' = [resp EXCEPT ![a] = ErrResp]
       \/ \E b \in Batches :
             /\ runPc[a] = "pollWait" => TotalArrivals + Len(b) <= MaxArrivals
             /\ resp' = [resp EXCEPT ![a] = OkResp(b)]
    /\ UNCHANGED << handlerVars, mockVars, pullVars, callVars, apis, mainPc, runPc, drainPc, jobsPc, offset, req, arrivals,
                    spawned, queue, waiters, enq, pulled, closed, handling, sends >>

\* The call in flight resolves, at a server that returns only updates whose id
\* is at least the offset of the request.
TgRespondFresh(a) ==
    /\ KindOf(a) = "Telegram"
    /\ runPc[a] \in {"bootWait", "pollWait"}
    /\ resp[a] = NoResp
    /\ \/ resp' = [resp EXCEPT ![a] = ErrResp]
       \/ \E b \in Batches :
             /\ \A i \in 1..Len(b) : b[i].id >= req[a].offset
             /\ runPc[a] = "pollWait" => TotalArrivals + Len(b) <= MaxArrivals
             /\ resp' = [resp EXCEPT ![a] = OkResp(b)]
    /\ UNCHANGED << handlerVars, mockVars, pullVars, callVars, apis, mainPc, runPc, drainPc,
                    jobsPc, offset, req, arrivals, spawned, queue, waiters, enq, pulled,
                    closed, handling, sends >>

\* Batches that may hold damaged updates.  The update ids, which play no part
\* in decoding, are the positions in the batch.
DamagedBatches ==
    UNION { { [i \in 1..len |-> [id |-> i, body |-> bs[i]]] :
                bs \in [1..len -> Bodies \cup DamagedUpdateBodies] } :
            len \in 0..MaxBatch }

\* The call in flight resolves, at a server that also returns damaged updates.
TgRespondDamaged(a) ==
    /\ KindOf(a) = "Telegram"
    /\ runPc[a] \in {"bootWait", "pollWait"}
    /\ resp[a] = NoResp
    /\ \/ resp' = [resp EXCEPT ![a] = ErrResp]
       \/ \E b \in DamagedBatches :
             /\ runPc[a] = "pollWait" => TotalArrivals + Len(b) <= MaxArrivals
             /\ resp' = [resp EXCEPT ![a] = OkResp(b)]
    /\ UNCHANGED << handlerVars, mockVars, pullVars, callVars, apis, mainPc, runPc, drainPc, jobsPc, offset, req, arrivals,
                    spawned, queue, waiters, enq, pulled, closed, handling, sends >>

\* A bootstrap that treats its batch like a polled one and spawns a task per
\* update.
TgBootOkDispatching(a) ==
    /\ runPc[a] = "bootWait"
    /\ resp[a].tag = "ok"
    /\ offset' = [offset EXCEPT ![a] = AdvanceOffset(offset[a], resp[a].updates)]
    /\ spawned' = [spawned EXCEPT ![a] = @ \cup BatchItems(arrivals[a], resp[a].updates)]
    /\ arrivals' = [arrivals EXCEPT ![a] = @ + Len(resp[a].updates)]
    /\ dispatched' = Recorded(a, resp[a].updates)
    /\ resp' = [resp EXCEPT ![a] = NoResp]
    /\ runPc' = [runPc EXCEPT ![a] = "poll"]
    /\ UNCHANGED << logged, dropped, mockVars, pullVars, callVars, apis, mainPc, drainPc, jobsPc, req, queue,
                    waiters, enq, pulled, closed, handling, sends >>

\* Bootstrap Ok(updates): only the offset is advanced.
TgBootOk(a) ==
    /\ runPc[a] = "bootWait"
    /\ resp[a].tag = "ok"
    /\ offset' = [offset EXCEPT ![a] = AdvanceOffset(offset[a], resp[a].updates)]
    /\ resp' = [resp EXCEPT ![a] = NoResp]
    /\ runPc' = [runPc EXCEPT ![a] = "poll"]
    /\ UNCHANGED << handlerVars, mockVars, pullVars, callVars, apis, mainPc, drainPc, jobsPc, req, arrivals, spawned, queue,
                    waiters, enq, pulled, closed, handling, sends >>

\* A failed bootstrap that goes on to the polling loop.
TgBootErrPolling(a) ==
    /\ runPc[a] = "bootWait"
    /\ resp[a].tag = "err"
    /\ resp' = [resp EXCEPT ![a] = NoResp]
    /\ runPc' = [runPc EXCEPT ![a] = "poll"]
    /\ UNCHANGED << handlerVars, mockVars, pullVars, callVars, apis, mainPc, drainPc,
                    jobsPc, offset, req, arrivals, spawned, queue, waiters, enq, pulled,
                    closed, handling, sends >>

\* Bootstrap Err: log, sleep.
TgBootErr(a) ==
    /\ runPc[a] = "bootWait"
    /\ resp[a].tag = "err"
    /\ resp' = [resp EXCEPT ![a] = NoResp]
    /\ runPc' = [runPc EXCEPT ![a] = "bootSleep"]
    /\ UNCHANGED << handlerVars, mockVars, pullVars, callVars, apis, mainPc, drainPc, jobsPc, offset, req, arrivals, spawned,
                    queue, waiters, enq, pulled, closed, handling, sends >>

\* The sleep is over: `continue` to the top of the outer loop.
TgBootSleepDone(a) ==
    /\ KindOf(a) = "Telegram"
    /\ runPc[a] = "bootSleep"
    /\ runPc' = [runPc EXCEPT ![a] = "boot"]
    /\ UNCHANGED << handlerVars, mockVars, pullVars, callVars, apis, mainPc, drainPc, jobsPc, offset, req, resp, arrivals,
                    spawned, queue, waiters, enq, pulled, closed, handling, sends >>

\* A polling request that asks again from the largest id seen.
PollReqAtOffset(off) == [offset |-> off, timeout |-> PollTimeout]

\* The request of one polling iteration.
PollReq(off) == [offset |-> off + 1, timeout |-> PollTimeout]

TgPollCall(a) ==
    /\ KindOf(a) = "Telegram"
    /\ runPc[a] = "poll"
    /\ req' = [req EXCEPT ![a] = PollReq(offset[a])]
    /\ runPc' = [runPc EXCEPT ![a] = "pollWait"]
    /\ UNCHANGED << handlerVars, mockVars, pullVars, callVars, apis, mainPc, drainPc, jobsPc, offset, resp, arrivals, spawned,
                    queue, waiters, enq, pulled, closed, handling, sends >>

\* Poll Ok(updates): advance the offset and spawn one task per update.
TgPollOk(a) ==
    /\ runPc[a] = "pollWait"
    /\ resp[a].tag = "ok"
    /\ offset' = [offset EXCEPT ![a] = AdvanceOffset(offset[a], resp[a].updates)]
    /\ spawned' = [spawned EXCEPT ![a] = @ \cup BatchItems(arrivals[a], resp[a].updates)]
    /\ arrivals' = [arrivals EXCEPT ![a] = @ + Len(resp[a].updates)]
    /\ dispatched' = Recorded(a, resp[a].updates)
    /\ resp' = [resp EXCEPT ![a] = NoResp]
    /\ runPc' = [runPc EXCEPT ![a] = "poll"]
    /\ UNCHANGED << logged, dropped, mockVars, pullVars, callVars, apis, mainPc, drainPc, jobsPc, req, queue,
                    waiters, enq, pulled, closed, handling, sends >>

\* A polling loop that leaves for the bootstrap when a call fails.
TgPollErrRestarting(a) ==
    /\ runPc[a] = "pollWait"
    /\ resp[a].tag = "err"
    /\ resp' = [resp EXCEPT ![a] = NoResp]
    /\ runPc' = [runPc EXCEPT ![a] = "bootSleep"]
    /\ UNCHANGED << handlerVars, mockVars, pullVars, callVars, apis, mainPc, drainPc, jobsPc, offset, req, arrivals, spawned,
                    queue, waiters, enq, pulled, closed, handling, sends >>

\* Poll Err: log, sleep.
TgPollErr(a) ==
    /\ runPc[a] = "pollWait"
    /\ resp[a].tag = "err"
    /\ resp' = [resp EXCEPT ![a] = NoResp]
    /\ runPc' = [runPc EXCEPT ![a] = "pollSleep"]
    /\ UNCHANGED << handlerVars, mockVars, pullVars, callVars, apis, mainPc, drainPc, jobsPc, offset, req, arrivals, spawned,
                    queue, waiters, enq, pulled, closed, handling, sends >>

\* The sleep is over: the inner loop iterates and issues its next request.
TgPollSleepDone(a) ==
    /\ KindOf(a) = "Telegram"
    /\ runPc[a] = "pollSleep"
    /\ req' = [req EXCEPT ![a] = PollReq(offset[a])]
    /\ runPc' = [runPc EXCEPT ![a] = "pollWait"]
    /\ UNCHANGED << handlerVars, mockVars, pullVars, callVars, apis, mainPc, drainPc, jobsPc, offset, resp, arrivals, spawned,
                    queue, waiters, enq, pulled, closed, handling, sends >>

\* ----------------------------------------------------------- OneBot11::run
\* connect_async succeeds: enter the `while let Some(msg)` loop.
ObConnectOk(a) ==
    /\ KindOf(a) = "OneBot11"
    /\ runPc[a] = "connect"
    /\ runPc' = [runPc EXCEPT ![a] = "connected"]
    /\ UNCHANGED << handlerVars, mockVars, pullVars, callVars, apis, mainPc, drainPc, jobsPc, offset, req, resp, arrivals,
                    spawned, queue, waiters, enq, pulled, closed, handling, sends >>

\* A connect failure that stops the runtime's drain loops.
ObConnectErrAborting(a) ==
    /\ KindOf(a) = "OneBot11"
    /\ runPc[a] = "connect"
    /\ runPc' = [runPc EXCEPT ![a] = "sleep"]
    /\ drainPc' = [b \in Adapters |-> "done"]
    /\ UNCHANGED << handlerVars, mockVars, pullVars, callVars, apis, mainPc, jobsPc, offset, req, resp, arrivals,
                    spawned, queue, waiters, enq, pulled, closed, handling, sends >>

\* connect_async fails: log, sleep.
ObConnectErr(a) ==
    /\ KindOf(a) = "OneBot11"
    /\ runPc[a] = "connect"
    /\ runPc' = [runPc EXCEPT ![a] = "sleep"]
    /\ UNCHANGED << handlerVars, mockVars, pullVars, callVars, apis, mainPc, drainPc, jobsPc, offset, req, resp, arrivals,
                    spawned, queue, waiters, enq, pulled, closed, handling, sends >>

\* A run() that gives up after a failed connect instead of retrying.
ObSleepDoneReturning(a) ==
    /\ KindOf(a) = "OneBot11"
    /\ runPc[a] = "sleep"
    /\ runPc' = [runPc EXCEPT ![a] = "returned"]
    /\ UNCHANGED << handlerVars, mockVars, pullVars, callVars, apis, mainPc, drainPc, jobsPc, offset, req, resp, arrivals,
                    spawned, queue, waiters, enq, pulled, closed, handling, sends >>

\* The sleep is over: `continue` to the next connect_async.
ObSleepDone(a) ==
    /\ KindOf(a) = "OneBot11"
    /\ runPc[a] = "sleep"
    /\ runPc' = [runPc EXCEPT ![a] = "connect"]
    /\ UNCHANGED << handlerVars, mockVars, pullVars, callVars, apis, mainPc, drainPc, jobsPc, offset, req, resp, arrivals,
                    spawned, queue, waiters, enq, pulled, closed, handling, sends >>

\* ws_stream.next() yields Some(msg): a task running handle_ws_msg is spawned.
ObFrame(a) ==
    /\ KindOf(a) = "OneBot11"
    /\ runPc[a] = "connected"
    /\ TotalArrivals < MaxArrivals
    /\ \E body \in Bodies :
          spawned' = [spawned EXCEPT ![a] = @ \cup { Item(arrivals[a] + 1, body, NoChat) }]
    /\ arrivals' = [arrivals EXCEPT ![a] = @ + 1]
    /\ UNCHANGED << handlerVars, mockVars, pullVars, callVars, apis, mainPc, runPc, drainPc, jobsPc, offset, req, resp, queue,
                    waiters, enq, pulled, closed, handling, sends >>

\* ws_stream.next() yields a damaged frame: its task is spawned all the same.
ObFrameDamaged(a) ==
    /\ KindOf(a) = "OneBot11"
    /\ runPc[a] = "connected"
    /\ TotalArrivals < MaxArrivals
    /\ \E body \in DamagedFrameBodies :
          spawned' = [spawned EXCEPT ![a] = @ \cup { Item(arrivals[a] + 1, body, NoChat) }]
    /\ arrivals' = [arrivals EXCEPT ![a] = @ + 1]
    /\ UNCHANGED << handlerVars, mockVars, pullVars, callVars, apis, mainPc, runPc, drainPc, jobsPc, offset, req, resp, queue,
                    waiters, enq, pulled, closed, handling, sends >>

\* ws_stream.next() yields None: the `while let` ends and the outer loop
\* goes round to connect_async.
ObStreamEnd(a) ==
    /\ KindOf(a) = "OneBot11"
    /\ runPc[a] = "connected"
    /\ runPc' = [runPc EXCEPT ![a] = "connect"]
    /\ UNCHANGED << handlerVars, mockVars, pullVars, callVars, apis, mainPc, drainPc, jobsPc, offset, req, resp, arrivals,
                    spawned, queue, waiters, enq, pulled, closed, handling, sends >>

\* ------------------------------------------------ OneBot11: the RPC envelope
\* enum RespStatus, as named on the wire (rename_all = "snake_case").
RespStatuses == {"ok", "async", "failed"}

\* Resp.message values.
RespMessages == {"", "no such member"}

\* What Resp.data is when the JSON has no data (or null).
Absent == "absent"

\* The outcomes of food_http_rs::call_api::<Resp<D>>: a transport or decoding
\* error, or a Resp { status, retcode, data, message } with the data given.
Envelopes(datas) ==
    [tag : {"resp"}, status : RespStatuses, retcode : 0..MaxRetcode,
     data : datas \cup {Absent}, message : RespMessages]

HttpErr == [tag |-> "err", why |-> "call"]

OkData(d) == [tag |-> "ok", data |-> d]

FailedErr(retcode, message) ==
    [tag |-> "err", why |-> "failed", retcode |-> retcode, message |-> message]

EmptyDataErr == [tag |-> "err", why |-> "empty"]

\* An envelope handling that looks at the status before the data.
CallApiStatusFirst(r) ==
    IF r.tag = "err" THEN HttpErr
    ELSE IF r.status = "failed" THEN FailedErr(r.retcode, r.message)
    ELSE IF r.data # Absent THEN OkData(r.data)
    ELSE EmptyDataErr

\* call_api (onebot_11.rs): `?` on the transport result, then
\* if let Some(data) = resp.data { Ok(data) } else { bail!(...) }.
CallApi(r) ==
    IF r.tag = "err" THEN HttpErr
    ELSE IF r.data # Absent THEN OkData(r.data)
    ELSE IF r.status = "failed" THEN FailedErr(r.retcode, r.message)
    ELSE EmptyDataErr

\* The role strings a get_group_member_info response may carry.
RoleStrings == {"owner", "admin", "member", "Owner", "Admin", "Member"}

\* enum GroupMemberInfoRole { Owner, Admin, Member } with derive(Deserialize)
\* and no rename attribute: serde accepts exactly the variant names.
RoleVariants == {"Owner", "Admin", "Member"}

\* Deserializing the response body into Resp<GetGroupMemberInfoData>: fails,
\* as a whole, when data is there and its role is no variant name.
DeserializeMemberInfo(wire) ==
    IF wire.data # Absent /\ wire.data \notin RoleVariants THEN HttpErr ELSE wire

\* OneBot11::is_group_admin: group.id.parse()?, user.id.parse()?, call_api,
\* then role == Owner || role == Admin.
IsGroupAdmin(idsParse, wire) ==
    IF ~idsParse THEN [tag |-> "err", why |-> "parse"]
    ELSE LET r == CallApi(DeserializeMemberInfo(wire))
         IN  IF r.tag = "ok" THEN OkData(r.data \in {"Owner", "Admin"}) ELSE r

\* The single calls of the gateway adapter's RPC functions.
GatewayCalls ==
    { [op |-> "call_api", reply |-> r] : r \in Envelopes({"data"}) \cup {HttpErr} }
        \cup { [op |-> "is_group_admin", ids |-> i, reply |-> r] :
                  i \in BOOLEAN, r \in Envelopes(RoleStrings) }

ObCallApi ==
    /\ call.op = "call_api"
    /\ result = NoResult
    /\ result' = CallApi(call.reply)
    /\ UNCHANGED call
    /\ UNCHANGED << handlerVars, mockVars, pullVars, apis, mainPc, runPc, drainPc,
                    jobsPc, offset, req, resp, arrivals, spawned, queue, waiters, enq,
                    pulled, closed, handling, sends >>

ObIsGroupAdmin ==
    /\ call.op = "is_group_admin"
    /\ result = NoResult
    /\ result' = IsGroupAdmin(call.ids, call.reply)
    /\ UNCHANGED call
    /\ UNCHANGED << handlerVars, mockVars, pullVars, apis, mainPc, runPc, drainPc,
                    jobsPc, offset, req, resp, arrivals, spawned, queue, waiters, enq,
                    pulled, closed, handling, sends >>

\* ---------------------------------------------------------------- Cli::run
\* A Cli::run that hands every line to a spawned task, as the gateway does
\* with its frames, and reads on.
CliLineSpawning(a) ==
    /\ KindOf(a) = "Cli"
    /\ runPc[a] = "read"
    /\ TotalArrivals < MaxArrivals
    /\ arrivals' = [arrivals EXCEPT ![a] = @ + 1]
    /\ spawned' = [spawned EXCEPT ![a] =
                      @ \cup { Item(arrivals[a] + 1, "message", ChatOn(a)) }]
    /\ UNCHANGED << handlerVars, mockVars, pullVars, callVars, apis, mainPc, runPc, drainPc, jobsPc, offset, req, resp, queue,
                    waiters, enq, pulled, closed, handling, sends >>

\* next_line is Ok(Some(line)): handle_line builds the message and awaits the
\* send inside the loop; on a full channel the loop itself is parked.
CliLine(a) ==
    /\ KindOf(a) = "Cli"
    /\ runPc[a] = "read"
    /\ TotalArrivals < MaxArrivals
    /\ arrivals' = [arrivals EXCEPT ![a] = @ + 1]
    /\ SendEffect(a, MessageEvent(a, arrivals[a] + 1, ChatOn(a)))
    /\ runPc' = IF Len(queue[a]) < QueueCapacity THEN runPc
                ELSE [runPc EXCEPT ![a] = "push"]
    /\ UNCHANGED << handlerVars, mockVars, pullVars, callVars, apis, mainPc, drainPc, jobsPc, offset, req, resp, spawned,
                    pulled, closed, handling, sends >>

\* A run() that takes the end of input for the end of its loop.
CliEofReturning(a) ==
    /\ KindOf(a) = "Cli"
    /\ runPc[a] = "read"
    /\ runPc' = [runPc EXCEPT ![a] = "returned"]
    /\ UNCHANGED << handlerVars, mockVars, pullVars, callVars, apis, mainPc, drainPc,
                    jobsPc, offset, req, resp, arrivals, spawned, queue, waiters, enq,
                    pulled, closed, handling, sends >>

\* next_line is Ok(None), end of input: handle_line returns at once and the
\* loop reads again.
CliEof(a) ==
    /\ KindOf(a) = "Cli"
    /\ runPc[a] = "read"
    /\ UNCHANGED vars

\* A run() that takes the sending end of the queue with it when it returns.
CliErrClosing(a) ==
    /\ KindOf(a) = "Cli"
    /\ runPc[a] = "read"
    /\ runPc' = [runPc EXCEPT ![a] = "returned"]
    /\ closed' = [closed EXCEPT ![a] = TRUE]
    /\ UNCHANGED << handlerVars, mockVars, pullVars, callVars, apis, mainPc, drainPc,
                    jobsPc, offset, req, resp, arrivals, spawned, queue, waiters, enq,
                    pulled, handling, sends >>

\* next_line is Err: log, break, run returns.
CliErr(a) ==
    /\ KindOf(a) = "Cli"
    /\ runPc[a] = "read"
    /\ runPc' = [runPc EXCEPT ![a] = "returned"]
    /\ UNCHANGED << handlerVars, mockVars, pullVars, callVars, apis, mainPc, drainPc, jobsPc, offset, req, resp, arrivals,
                    spawned, queue, waiters, enq, pulled, closed, handling, sends >>

\* ------------------------------------------------------------------- Mock
\* async fn run(self: Arc<Self>) {}
MockRun(a) ==
    /\ KindOf(a) = "Mock"
    /\ runPc[a] = "start"
    /\ runPc' = [runPc EXCEPT ![a] = "returned"]
    /\ UNCHANGED << handlerVars, mockVars, pullVars, callVars, apis, mainPc, drainPc, jobsPc, offset, req, resp, arrivals,
                    spawned, queue, waiters, enq, pulled, closed, handling, sends >>

\* Mock::happen(event): the caller's event, whatever it is (an Other, or a
\* Message built with Message::new around a Chat of any registered adapter,
\* which Chat::from_raw and Message::get_chat hand out), is sent by a
\* spawned task.
MockHappen(a) ==
    /\ KindOf(a) = "Mock"
    /\ TotalArrivals < MaxArrivals
    /\ \E it \in { Item(arrivals[a] + 1, "other", NoChat) }
                 \cup { Item(arrivals[a] + 1, "message", ChatOn(b)) : b \in Adapters } :
          spawned' = [spawned EXCEPT ![a] = @ \cup {it}]
    /\ arrivals' = [arrivals EXCEPT ![a] = @ + 1]
    /\ UNCHANGED << handlerVars, mockVars, pullVars, callVars, apis, mainPc, runPc, drainPc, jobsPc, offset, req, resp, queue,
                    waiters, enq, pulled, closed, handling, sends >>

\* Mock::simple_msg(contents): happen with a message whose chat is
\* Chat::private(self.clone(), sender).
MockSimpleMsg(a) ==
    /\ KindOf(a) = "Mock"
    /\ TotalArrivals < MaxArrivals
    /\ spawned' = [spawned EXCEPT ![a] =
                      @ \cup { Item(arrivals[a] + 1, "message", ChatOn(a)) }]
    /\ arrivals' = [arrivals EXCEPT ![a] = @ + 1]
    /\ UNCHANGED << handlerVars, mockVars, pullVars, callVars, apis, mainPc, runPc, drainPc, jobsPc, offset, req, resp, queue,
                    waiters, enq, pulled, closed, handling, sends >>

\* The recorded sends a Mock has handed out so far, in the order handed out.
RECURSIVE Flatten(_)
Flatten(ds) == IF ds = <<>> THEN <<>> ELSE Head(ds) \o Flatten(Tail(ds))

\* Mock::send_msg_inner: locks actions and pushes Action::SendMessage; the
\* sends are numbered in the order of their pushes.
MockSendMsgInner ==
    /\ Len(Flatten(drains)) + Len(actions) < MaxSends
    /\ actions' = Append(actions, Len(Flatten(drains)) + Len(actions) + 1)
    /\ UNCHANGED << drains, getters >>
    /\ UNCHANGED << handlerVars, pullVars, callVars, apis, mainPc, runPc, drainPc,
                    jobsPc, offset, req, resp, arrivals, spawned, queue, waiters, enq,
                    pulled, closed, handling, sends >>

\* Mock::get_actions / get_actions_with_timeout is called: it sleeps first.
MockGetActionsCall ==
    /\ Len(drains) + getters < MaxGets
    /\ getters' = getters + 1
    /\ UNCHANGED << actions, drains >>
    /\ UNCHANGED << handlerVars, pullVars, callVars, apis, mainPc, runPc, drainPc,
                    jobsPc, offset, req, resp, arrivals, spawned, queue, waiters, enq,
                    pulled, closed, handling, sends >>

\* A retrieval that copies the recorded sends and leaves them in place.
MockGetActionsPeek ==
    /\ getters > 0
    /\ getters' = getters - 1
    /\ drains' = Append(drains, actions)
    /\ UNCHANGED actions
    /\ UNCHANGED << handlerVars, pullVars, callVars, apis, mainPc, runPc, drainPc,
                    jobsPc, offset, req, resp, arrivals, spawned, queue, waiters, enq,
                    pulled, closed, handling, sends >>

\* The sleep of a get_actions call is over:
\* self.actions.lock().await.drain(..).collect()
MockGetActionsDrain ==
    /\ getters > 0
    /\ getters' = getters - 1
    /\ drains' = Append(drains, actions)
    /\ actions' = <<>>
    /\ UNCHANGED << handlerVars, pullVars, callVars, apis, mainPc, runPc, drainPc,
                    jobsPc, offset, req, resp, arrivals, spawned, queue, waiters, enq,
                    pulled, closed, handling, sends >>

\* ------------------------------------------- any other BotAPI implementor
\* Its run() returns.
ExtRunReturn(a) ==
    /\ KindOf(a) = "External"
    /\ runPc[a] = "running"
    /\ runPc' = [runPc EXCEPT ![a] = "returned"]
    /\ UNCHANGED << handlerVars, mockVars, pullVars, callVars, apis, mainPc, drainPc, jobsPc, offset, req, resp, arrivals,
                    spawned, queue, waiters, enq, pulled, closed, handling, sends >>

\* Its event stream ends: next_event returns None from now on.
ExtClose(a) ==
    /\ KindOf(a) = "External"
    /\ ~closed[a]
    /\ closed' = [closed EXCEPT ![a] = TRUE]
    /\ UNCHANGED << handlerVars, mockVars, pullVars, callVars, apis, mainPc, runPc, drainPc, jobsPc, offset, req, resp,
                    arrivals, spawned, queue, waiters, enq, pulled, handling, sends >>

\* ------------------------------------------------------------------- Next
Next ==
    \/ BotMaidRun
    \/ JobsReturn
    \/ BotMaidReturn
    \/ \E a \in Adapters : NextEvent(a)
    \/ \E a \in Adapters : DrainEnd(a)
    \/ \E e \in handling : HandleEvent(e)
    \/ \E a \in Adapters : \E it \in spawned[a] : TaskRun(a, it)
    \/ \E a \in Adapters : TgBootCall(a)
    \/ \E a \in Adapters : TgRespond(a)
    \/ \E a \in Adapters : TgBootOk(a)
    \/ \E a \in Adapters : TgBootErr(a)
    \/ \E a \in Adapters : TgBootSleepDone(a)
    \/ \E a \in Adapters : TgPollCall(a)
    \/ \E a \in Adapters : TgPollOk(a)
    \/ \E a \in Adapters : TgPollErr(a)
    \/ \E a \in Adapters : TgPollSleepDone(a)
    \/ \E a \in Adapters : ObConnectOk(a)
    \/ \E a \in Adapters : ObConnectErr(a)
    \/ \E a \in Adapters : ObSleepDone(a)
    \/ \E a \in Adapters : ObFrame(a)
    \/ \E a \in Adapters : ObStreamEnd(a)
    \/ \E a \in Adapters : CliLine(a)
    \/ \E a \in Adapters : CliEof(a)
    \/ \E a \in Adapters : CliErr(a)
    \/ \E a \in Adapters : MockRun(a)
    \/ \E a \in Adapters : MockHappen(a)
    \/ \E a \in Adapters : MockSimpleMsg(a)
    \/ \E a \in Adapters : ExtRunReturn(a)
    \/ \E a \in Adapters : ExtClose(a)

Spec == Init /\ [][Next]_vars

\* ------------------------------------------- one gateway adapter, with time
\* A BotMaid with a single OneBot11 adapter.
InitGateway == Init /\ apis = << "OneBot11" >>

NextGateway ==
    \/ BotMaidRun
    \/ JobsReturn
    \/ \E a \in Adapters : NextEvent(a)
    \/ \E e \in handling : HandleEvent(e)
    \/ \E a \in Adapters : \E it \in spawned[a] : TaskRun(a, it)
    \/ \E a \in Adapters : ObConnectOk(a)
    \/ \E a \in Adapters : ObConnectErr(a)
    \/ \E a \in Adapters : ObSleepDone(a)
    \/ \E a \in Adapters : ObFrame(a)
    \/ \E a \in Adapters : ObStreamEnd(a)

\* tokio::time::sleep(Duration::from_secs(3)).await completes: the timer fires
\* and the worker pool resumes the task.  Nothing is assumed of connect_async
\* or of the stream, which may fail, stall or end at will.
LiveGateway == InitGateway /\ [][NextGateway]_vars /\ WF_vars(ObSleepDone(1))

\* ------------------------------- a gateway adapter beside a Cli, scheduled
\* A BotMaid with a OneBot11 adapter (registered first) and a Cli adapter.
InitPeers == Built(<< "OneBot11", "Cli" >>) /\ NothingElse

NextPeers ==
    \/ BotMaidRun
    \/ JobsReturn
    \/ \E a \in Adapters : NextEvent(a)
    \/ \E e \in handling : HandleEvent(e)
    \/ \E a \in Adapters : \E it \in spawned[a] : TaskRun(a, it)
    \/ \E a \in Adapters : ObConnectOk(a)
    \/ \E a \in Adapters : ObConnectErr(a)
    \/ \E a \in Adapters : ObSleepDone(a)
    \/ \E a \in Adapters : ObFrame(a)
    \/ \E a \in Adapters : ObStreamEnd(a)
    \/ \E a \in Adapters : CliLine(a)
    \/ \E a \in Adapters : CliErr(a)

\* ------------------------- one ingesting adapter and damaged input, scheduled
\* A BotMaid with a single Telegram or a single OneBot11 adapter, whose server
\* also sends damaged updates / frames.  The handlers, which run in tasks of
\* their own and touch nothing of the ingestion, are left out.
InitIngest == (Built(<< "Telegram" >>) \/ Built(<< "OneBot11" >>)) /\ NothingElse

NextIngest ==
    \/ BotMaidRun
    \/ \E a \in Adapters : NextEvent(a)
    \/ \E a \in Adapters : \E it \in spawned[a] : TaskRun(a, it)
    \/ \E a \in Adapters : TgBootCall(a)
    \/ \E a \in Adapters : TgRespondDamaged(a)
    \/ \E a \in Adapters : TgBootOk(a)
    \/ \E a \in Adapters : TgBootErr(a)
    \/ \E a \in Adapters : TgBootSleepDone(a)
    \/ \E a \in Adapters : TgPollCall(a)
    \/ \E a \in Adapters : TgPollOk(a)
    \/ \E a \in Adapters : TgPollErr(a)
    \/ \E a \in Adapters : TgPollSleepDone(a)
    \/ \E a \in Adapters : ObConnectOk(a)
    \/ \E a \in Adapters : ObConnectErr(a)
    \/ \E a \in Adapters : ObSleepDone(a)
    \/ \E a \in Adapters : ObFrame(a)
    \/ \E a \in Adapters : ObFrameDamaged(a)
    \/ \E a \in Adapters : ObStreamEnd(a)

\* The decode tasks of the arrivals that hold a message.
MessageItems == { Item(n, "message", NoChat) : n \in 1..MaxArrivals }

\* The worker pool of tokio runs every task that is ready: BotMaid::run is
\* polled, a spawned decode task runs to its send, and the drain loop, whose
\* handling is itself spawned, takes what its queue holds.  Nothing is assumed
\* of the servers.
LiveIngest ==
    /\ InitIngest /\ [][NextIngest]_vars
    /\ WF_vars(BotMaidRun)
    /\ WF_vars(NextEvent(1))
    /\ \A it \in MessageItems : WF_vars(TaskRun(1, it))

\* ----------------------------------------- a Mock, its sends and retrievals
InitMock == Built(<< "Mock" >>) /\ NothingElse

NextMock ==
    \/ MockSendMsgInner
    \/ MockGetActionsCall
    \/ MockGetActionsDrain

SpecMock == InitMock /\ [][NextMock]_vars

\* ------------------------------ a Cli adapter with two callers of next_event
InitPullers == Built(<< "Cli" >>) /\ NothingElse

NextPullers ==
    \/ BotMaidRun
    \/ \E a \in Adapters : CliLine(a)
    \/ \E p \in Pullers : NextEventCall(p)
    \/ \E p \in Pullers : NextEventLock(p)
    \/ \E p \in Pullers : NextEventRecv(p)
    \/ \E e \in handling : HandleEvent(e)

SpecPullers == InitPullers /\ [][NextPullers]_vars

\* --------------------------------------- single RPC calls of a OneBot11
InitGatewayCalls ==
    /\ Built(<< "OneBot11" >>)
    /\ NoSideTasks
    /\ call \in GatewayCalls
    /\ result = NoResult

NextGatewayCalls ==
    \/ ObCallApi
    \/ ObIsGroupAdmin

SpecGatewayCalls == InitGatewayCalls /\ [][NextGatewayCalls]_vars

\* ----------------------------------------- single calls on a Telegram
InitLongPollCalls ==
    /\ Built(<< "Telegram" >>)
    /\ NoSideTasks
    /\ call \in LongPollCalls
    /\ result = NoResult

NextLongPollCalls ==
    \/ BotApiSendMsg
    \/ BotApiReplyToMsg
    \/ TgSendMsgInner
    \/ TgEcho
    \/ TgHandleUpdate

SpecLongPollCalls == InitLongPollCalls /\ [][NextLongPollCalls]_vars

\* ------------------------------------- single updates with their entities
InitEntityWalk ==
    /\ Built(<< "Telegram" >>)
    /\ NoSideTasks
    /\ call \in EntityWalkCalls(WalkTexts)
    /\ result = NoResult

NextEntityWalk == TgHandleUpdate

SpecEntityWalk == InitEntityWalk /\ [][NextEntityWalk]_vars

\* --------------------------------- a Cli adapter, its input and its drain
InitCliRun == Built(<< "Cli" >>) /\ NothingElse

NextCliRun ==
    \/ BotMaidRun
    \/ JobsReturn
    \/ \E a \in Adapters : CliLine(a)
    \/ \E a \in Adapters : CliEof(a)
    \/ \E a \in Adapters : CliErr(a)
    \/ \E a \in Adapters : NextEvent(a)
    \/ \E e \in handling : HandleEvent(e)

SpecCliRun == InitCliRun /\ [][NextCliRun]_vars

\* ------------------------------------ single sends through either adapter
InitOutbound ==
    /\ Built(<< "Telegram", "OneBot11" >>)
    /\ NoSideTasks
    /\ call \in OutboundCalls
    /\ result = NoResult

NextOutbound == ApiSendMsgInner

SpecOutbound == InitOutbound /\ [][NextOutbound]_vars

\* ------------------------------- single messages decoded and asked be_at
InitSelfMention ==
    /\ Built(<< "Telegram", "Cli" >>)
    /\ NoSideTasks
    /\ call \in SelfMentionCalls(Strings(SelfMentionChars, MaxTextLen)) \cup CliLineCalls
    /\ result = NoResult

NextSelfMention ==
    \/ TgHandleUpdate
    \/ CliHandleLine
    \/ MessageBeAt

SpecSelfMention == InitSelfMention /\ [][NextSelfMention]_vars

\* ------------------------------------------- single frames of a OneBot11
InitGatewayFrames ==
    /\ Built(<< "OneBot11" >>)
    /\ NoSideTasks
    /\ call \in GatewayFrameCalls
    /\ result = NoResult

NextGatewayFrames == ObHandleWsMsg

SpecGatewayFrames == InitGatewayFrames /\ [][NextGatewayFrames]_vars

\* -------------------------------------------- single sends on a OneBot11
InitGatewaySends ==
    /\ Built(<< "OneBot11" >>)
    /\ NoSideTasks
    /\ call \in GatewaySendCalls
    /\ result = NoResult

NextGatewaySends ==
    \/ BotApiSendMsg
    \/ BotApiReplyToMsg
    \/ ObSendMsgInner

SpecGatewaySends == InitGatewaySends /\ [][NextGatewaySends]_vars

\* ------------------------------------------------- single lines of a Cli
InitCliLines ==
    /\ Built(<< "Cli" >>)
    /\ NoSideTasks
    /\ call \in CliLineCalls
    /\ result = NoResult

NextCliLines == CliHandleLine

SpecCliLines == InitCliLines /\ [][NextCliLines]_vars

\* ------------------------------------- a Cli adapter whose handler may fail
InitHandlers == Built(<< "Cli" >>) /\ NothingElse

NextHandlers ==
    \/ BotMaidRun
    \/ JobsReturn
    \/ \E a \in Adapters : NextEvent(a)
    \/ \E e \in handling : HandleEvent(e)
    \/ \E e \in handling : HandleEventErr(e)
    \/ \E a \in Adapters : CliLine(a)
    \/ \E a \in Adapters : CliErr(a)

\* The events the only adapter can push.
LineEvents == { MessageEvent(1, n, ChatOn(1)) : n \in 1..MaxArrivals }

\* The worker pool runs every ready task: the drain loop when next_event can
\* return, and every handle_event task, which ends with Ok or with Err.
LiveHandlers ==
    /\ InitHandlers
    /\ [][NextHandlers]_vars
    /\ WF_vars(NextEvent(1))
    /\ \A e \in LineEvents : WF_vars(HandleEvent(e) \/ HandleEventErr(e))

\* The events the Cli adapter (registered second) can push.
CliEvents == { MessageEvent(2, n, ChatOn(2)) : n \in 1..MaxArrivals }

\* The worker pool runs every task that is ready: the Cli adapter's drain
\* loop when its next_event can return, and every spawned handle_event
\* task.  Nothing is assumed of the gateway adapter's task or its peer.
LivePeers ==
    /\ InitPeers
    /\ [][NextPeers]_vars
    /\ WF_vars(NextEvent(2))
    /\ \A e \in CliEvents : WF_vars(HandleEvent(e))

\* ------------------ a Telegram whose server honours the offset it is asked
InitPolling ==
    /\ Built(<< "Telegram" >>)
    /\ SideTasksIdle(EmptyRecord)
    /\ call = NoCall
    /\ result = NoResult

NextPolling ==
    \/ BotMaidRun
    \/ \E a \in Adapters : TgBootCall(a)
    \/ \E a \in Adapters : TgRespondFresh(a)
    \/ \E a \in Adapters : TgBootOk(a)
    \/ \E a \in Adapters : TgBootErr(a)
    \/ \E a \in Adapters : TgBootSleepDone(a)
    \/ \E a \in Adapters : TgPollCall(a)
    \/ \E a \in Adapters : TgPollOk(a)
    \/ \E a \in Adapters : TgPollErr(a)
    \/ \E a \in Adapters : TgPollSleepDone(a)

SpecPolling == InitPolling /\ [][NextPolling]_vars

\* -------------------------------------- a Telegram and a server of any kind
InitBootstrap == Built(<< "Telegram" >>) /\ NothingElse

NextBootstrap ==
    \/ BotMaidRun
    \/ \E a \in Adapters : TgBootCall(a)
    \/ \E a \in Adapters : TgRespond(a)
    \/ \E a \in Adapters : TgBootOk(a)
    \/ \E a \in Adapters : TgBootErr(a)
    \/ \E a \in Adapters : TgBootSleepDone(a)
    \/ \E a \in Adapters : TgPollCall(a)
    \/ \E a \in Adapters : TgPollOk(a)
    \/ \E a \in Adapters : TgPollErr(a)
    \/ \E a \in Adapters : TgPollSleepDone(a)

\* The runtime runs the task of run() whenever it is ready: the sleep ends and
\* the next call is issued.  Nothing is assumed of the server.
LiveBootstrap ==
    /\ InitBootstrap
    /\ [][NextBootstrap]_vars
    /\ WF_vars(TgBootSleepDone(1))
    /\ WF_vars(TgBootCall(1))

\* ------------------------------ a Mock adapter, its drain loop and handlers
InitDispatch == Built(<< "Mock" >>) /\ NothingElse

NextDispatch ==
    \/ BotMaidRun
    \/ \E a \in Adapters : MockRun(a)
    \/ \E a \in Adapters : MockHappen(a)
    \/ \E a \in Adapters : \E it \in spawned[a] : TaskRun(a, it)
    \/ \E a \in Adapters : NextEvent(a)
    \/ \E e \in handling : HandleEvent(e)
    \/ \E e \in handling : HandleEventErr(e)

\* The worker pool runs every ready task: the drain loop when next_event can
\* return, and the handle_event task of each event, which ends with Ok or
\* with Err.  Nothing is assumed of who calls Mock::happen.
LiveDispatch ==
    /\ InitDispatch
    /\ [][NextDispatch]_vars
    /\ WF_vars(NextEvent(1))
    /\ \A n \in 1..MaxArrivals :
          WF_vars(\E e \in handling : e.n = n /\ (HandleEvent(e) \/ HandleEventErr(e)))

\* ================================================================= claims
TelegramAdapters == { a \in Adapters : KindOf(a) = "Telegram" }

\* The positions of Telegram::run inside its inner (polling) loop.
PollPcs == {"poll", "pollWait", "pollSleep"}

Largest(S) == CHOOSE m \in S : \A x \in S : x <= m

\* C1: when the bootstrap getUpdates call succeeds, the offset afterwards is
\* the largest update id of the returned batch (0 for an empty batch), no
\* decode task is spawned and nothing is sent on the adapter's queue for the
\* batch: spawned tasks and sends exist only for updates of polled batches.
BootstrapDiscards ==
    [][ \A a \in TelegramAdapters :
          /\ (runPc[a] = "bootWait" /\ resp[a].tag = "ok" /\ runPc'[a] # "bootWait")
                => /\ runPc'[a] = "poll"
                   /\ offset'[a] = Largest(UpdateIds(resp[a].updates) \cup {0})
                   /\ spawned'[a] = spawned[a]
                   /\ arrivals'[a] = arrivals[a]
                   /\ enq'[a] = enq[a] /\ queue'[a] = queue[a] /\ waiters'[a] = waiters[a]
          /\ runPc'[a] \notin PollPcs
                => spawned'[a] = {} /\ enq'[a] = <<>> /\ queue'[a] = <<>> ]_vars

\* C1 witness: the bootstrap has returned a batch whose largest id is
\* MaxUpdateId; the polling loop is entered with that offset and no task.
BootstrapDiscardsWitness ==
    \E a \in TelegramAdapters :
        /\ runPc[a] = "poll"
        /\ offset[a] = MaxUpdateId
        /\ arrivals[a] = 0 /\ spawned[a] = {} /\ enq[a] = <<>>

\* C2: in the polling loop every getUpdates request carries offset + 1, a
\* successful response leaves the offset at the maximum of its previous value
\* and the ids of the response, and the offset never decreases.
PollOffsetAdvances ==
    [][ \A a \in TelegramAdapters :
          /\ runPc'[a] = "pollWait"
                => req'[a] = [offset |-> offset'[a] + 1, timeout |-> PollTimeout]
          /\ (runPc[a] = "pollWait" /\ resp[a].tag = "ok" /\ runPc'[a] # "pollWait")
                => offset'[a] = Largest(UpdateIds(resp[a].updates) \cup {offset[a]})
          /\ runPc[a] \in PollPcs
                => runPc'[a] \in PollPcs /\ offset'[a] >= offset[a] ]_vars

\* C2 witness: a request issued after polled batches have taken the offset to
\* MaxUpdateId.
PollOffsetAdvancesWitness ==
    \E a \in TelegramAdapters :
        /\ runPc[a] = "pollWait"
        /\ arrivals[a] >= 2
        /\ offset[a] = MaxUpdateId
        /\ req[a].offset = MaxUpdateId + 1

\* C3: a failed call of the polling loop changes neither the offset nor the
\* spawned tasks, is followed by the sleep, and the request after the sleep is
\* the request that failed (same offset, so every update above the offset is
\* asked for again); the polling loop is never left.
PollFailureRetriesSameOffset ==
    [][ \A a \in TelegramAdapters :
          /\ (runPc[a] = "pollWait" /\ resp[a].tag = "err" /\ runPc'[a] # "pollWait")
                => /\ runPc'[a] = "pollSleep"
                   /\ offset'[a] = offset[a]
                   /\ spawned'[a] = spawned[a] /\ arrivals'[a] = arrivals[a]
          /\ (runPc[a] = "pollSleep" /\ runPc'[a] # "pollSleep")
                => /\ runPc'[a] = "pollWait"
                   /\ req'[a] = req[a]
                   /\ req'[a].offset = offset[a] + 1
                   /\ offset'[a] = offset[a]
          /\ runPc[a] \in PollPcs => runPc'[a] \in PollPcs ]_vars

\* C3 witness: the adapter sleeps after a failed call made once updates had
\* been dispatched and the offset had advanced.
PollFailureRetriesSameOffsetWitness ==
    \E a \in TelegramAdapters :
        /\ runPc[a] = "pollSleep"
        /\ arrivals[a] >= 1
        /\ offset[a] = MaxUpdateId

GatewayAdapters == { a \in Adapters : KindOf(a) = "OneBot11" }

CliAdapters == { a \in Adapters : KindOf(a) = "Cli" }

\* The arrival numbers of a sequence of events.
EventNumbers(es) == [i \in 1..Len(es) |-> es[i].n]

\* Every event sitting in the buffer or held by a parked sender of adapter a.
Pending(a) ==
    { queue[a][i] : i \in 1..Len(queue[a]) } \cup { waiters[a][i] : i \in 1..Len(waiters[a]) }

Increasing(s) == \A i, j \in 1..Len(s) : i < j => s[i] < s[j]

\* C4: a connect attempt of the gateway adapter is entered only at the start
\* of run() or out of the fixed delay; in particular never straight from a
\* connected stream that has ended.
ReconnectWaitsDelay ==
    [][ \A a \in GatewayAdapters :
          (runPc[a] # "connect" /\ runPc'[a] = "connect")
              => runPc[a] \in {"idle", "sleep"} ]_vars

\* C5: OneBot11::run never returns; a stream that ends leads straight to a
\* new connect attempt, and a failed connect attempt is always followed,
\* after the sleep, by a new one, however many have failed before.
GatewayRetriesForever ==
    /\ [](runPc[1] \in {"idle", "connect", "sleep", "connected"})
    /\ [][ (runPc[1] = "connected" /\ runPc'[1] # "connected")
              => runPc'[1] = "connect" ]_vars
    /\ [][ (runPc[1] = "connect" /\ runPc'[1] # "connect")
              => runPc'[1] \in {"connected", "sleep"} ]_vars
    /\ (runPc[1] = "sleep") ~> (runPc[1] = "connect")

\* C5 witness: the adapter sleeps after a failed connect attempt that came
\* after a connection which had delivered frames and then ended.
GatewayRetriesForeverWitness ==
    /\ apis = << "OneBot11" >>
    /\ runPc[1] = "sleep"
    /\ arrivals[1] >= 1

\* C6 as stated: every Message in the queue of adapter A carries a chat of A,
\* and every send a handler makes for a message goes out on the adapter whose
\* queue the message came from.
ReplyRoutedToSource ==
    /\ \A a \in Adapters : \A e \in Pending(a) :
          e.kind = "Message" => e.chat.api = a
    /\ \A s \in sends : s.on = s.src

\* C6: every Message built by the decoders of the adapters (handle_update,
\* handle_ws_msg, handle_line) carries a chat of the adapter that decoded it;
\* every send a handler makes through the message's chat, as a reply, or
\* through a chat spawned from it goes out on the adapter of that chat, which
\* for those messages is the decoding adapter, also with two adapters of one
\* platform.  (Mock::happen pushes its caller's event as it is.)
ReplyRoutedThroughChat ==
    /\ \A a \in Adapters : \A e \in Pending(a) :
          (e.kind = "Message" /\ KindOf(a) # "Mock") => e.chat.api = a
    /\ \A e \in handling :
          (e.kind = "Message" /\ KindOf(e.src) # "Mock") => e.chat.api = e.src
    /\ \A s \in sends :
          /\ s.on = s.api
          /\ KindOf(s.src) # "Mock" => s.on = s.src

\* C6 witness: two gateway adapters are registered and a handler has sent
\* for a message decoded by the second one.
ReplyRoutedThroughChatWitness ==
    /\ apis = << "OneBot11", "OneBot11" >>
    /\ \E s \in sends : s.src = 2 /\ s.on = 2

\* C7: the buffer of every adapter holds at most one event; the pushes that
\* have completed and are not yet pulled are exactly the buffer's content;
\* and a push is parked only while the slot is occupied.
QueueHoldsOne ==
    \A a \in Adapters :
        /\ Len(queue[a]) <= 1
        /\ (Len(enq[a]) - Len(waiters[a])) - Len(pulled[a]) = Len(queue[a])
        /\ waiters[a] # <<>> => Len(queue[a]) = 1

\* C7 witness: the slot is occupied, a push is parked behind it, and an
\* earlier event has already been pulled.
QueueHoldsOneWitness ==
    \E a \in Adapters :
        /\ Len(queue[a]) = 1
        /\ waiters[a] # <<>>
        /\ pulled[a] # <<>>

\* C8 as stated: for every adapter, while a decoded event waits to enter the
\* full queue the ingestion loop accepts no further raw item.
IngestionLoopBlocksOnPush ==
    [][ \A a \in Adapters :
          waiters[a] # <<>> => arrivals'[a] = arrivals[a] ]_vars

\* C8: Cli::run blocks on the push itself: at most one event of it waits, it
\* waits exactly while the loop is parked in handle_line, no line is handed to
\* a task, and every line read has had its send called.
CliLoopBlocksOnPush ==
    \A a \in CliAdapters :
        /\ Len(waiters[a]) <= 1
        /\ waiters[a] # <<>> <=> runPc[a] = "push"
        /\ spawned[a] = {}
        /\ Len(enq[a]) = arrivals[a]

\* C8 witness: Cli::run is parked in its push behind an occupied slot.
CliLoopBlocksOnPushWitness ==
    \E a \in CliAdapters :
        /\ runPc[a] = "push"
        /\ Len(queue[a]) = 1
        /\ arrivals[a] >= 2

\* C9 as stated: the gateway and long-poll adapters' events are pulled in the
\* order their frames / updates arrived.
PulledInArrivalOrder ==
    \A a \in GatewayAdapters \cup TelegramAdapters : Increasing(pulled[a])

\* C9: events are pulled in the order in which their sends were called
\* (FIFO through the slot and the channel's wait list); for Cli that is the
\* order of the lines.
PulledInSendOrder ==
    /\ \A a \in Adapters :
          enq[a] = pulled[a] \o EventNumbers(queue[a]) \o EventNumbers(waiters[a])
    /\ \A a \in CliAdapters : Increasing(pulled[a])

\* C9 witness: a gateway or long-poll adapter of which a later arrival was
\* sent, and pulled, before an earlier one.
PulledInSendOrderWitness ==
    \E a \in GatewayAdapters \cup TelegramAdapters :
        /\ Len(pulled[a]) >= 2
        /\ pulled[a][1] > pulled[a][2]

\* C10: a drain loop ends only when next_event of its own adapter has
\* returned None, and that step changes no other task: the other drain loops,
\* every run() task, the jobs task and BotMaid::run stay where they are;
\* BotMaid::run returns only once every task of the JoinSet has finished.
StreamEndIsLocal ==
    [][ /\ \A a \in Adapters :
             (drainPc[a] = "pull" /\ drainPc'[a] = "done")
                 => /\ closed[a] /\ queue[a] = <<>>
                    /\ \A b \in Adapters \ {a} : drainPc'[b] = drainPc[b]
                    /\ runPc' = runPc /\ jobsPc' = jobsPc /\ mainPc' = mainPc
                    /\ queue' = queue /\ waiters' = waiters /\ spawned' = spawned
        /\ (mainPc # "returned" /\ mainPc' = "returned") => JoinAllDone ]_vars

\* C10 witness: the first adapter's drain loop has ended; the second adapter
\* still reads and its drain loop still pulls, with an event in its slot, and
\* BotMaid::run is still in join_all.
StreamEndIsLocalWitness ==
    /\ Len(apis) = 2
    /\ drainPc[1] = "done"
    /\ drainPc[2] = "pull"
    /\ runPc[2] = "read"
    /\ queue[2] # <<>>
    /\ mainPc = "join"

\* C11: whatever the gateway adapter does (in particular when every connect
\* attempt fails, for ever), every event the Cli adapter has pushed or is
\* parked pushing is eventually pulled by the Cli adapter's drain loop and
\* given to a handle_event task, and that task eventually runs.
PeerFailureDoesNotStall ==
    \A e \in CliEvents :
        /\ (e \in Pending(2)) ~> (e \in handling)
        /\ (e \in handling) ~> (e \notin handling)

\* C11 witness: the gateway adapter has never connected and sleeps after a
\* failed attempt; events of the Cli adapter have been pulled, one of them is
\* with its handling task and the next sits in the slot.
PeerFailureDoesNotStallWitness ==
    /\ apis = << "OneBot11", "Cli" >>
    /\ runPc[1] = "sleep" /\ arrivals[1] = 0
    /\ Len(pulled[2]) >= 2
    /\ \E e \in handling : e.src = 2
    /\ queue[2] # <<>>

\* C12: a step in which a handler error is logged ends that event's handling
\* task and nothing else: the drain loops, the run() tasks, the jobs task,
\* BotMaid::run and the queues stay as they are; the drain loop never ends;
\* and every event pushed, also after errors were logged, is eventually
\* pulled and given to a handling task, which eventually runs handle_msg.
HandlerErrorsContained ==
    /\ [][ \A e \in logged' \ logged :
              /\ e \in handling
              /\ handling' = handling \ {e}
              /\ drainPc' = drainPc /\ runPc' = runPc
              /\ jobsPc' = jobsPc /\ mainPc' = mainPc
              /\ queue' = queue /\ waiters' = waiters /\ pulled' = pulled ]_vars
    /\ [](mainPc = "join" => drainPc[1] = "pull")
    /\ \A e \in LineEvents :
          /\ (logged # {} /\ e \in Pending(1)) ~> (e \in handling)
          /\ (e \in handling) ~> (e \notin handling)

\* C12 witness: the handler's error for one line has been logged, and a later
\* line of the same adapter is with its handling task while the drain loop
\* still pulls.
HandlerErrorsContainedWitness ==
    /\ apis = << "Cli" >>
    /\ drainPc[1] = "pull"
    /\ \E e \in logged : \E f \in handling : f.src = e.src /\ f.n > e.n

\* C13: the sends handed out by the get_actions calls so far, followed by
\* those still recorded, are all the sends made, each once and in send order;
\* a get_actions call returns exactly the sends recorded since the previous
\* retrieval (none, if there was no send) and leaves none recorded.
MockActionsReturnedOnce ==
    /\ [](Flatten(drains) \o actions =
              [i \in 1..(Len(Flatten(drains)) + Len(actions)) |-> i])
    /\ [][ Len(drains') > Len(drains)
              => drains' = Append(drains, actions) /\ actions' = <<>> ]_vars

\* C13 witness: one send, then two retrievals: the first returned the send,
\* the second nothing.
MockActionsReturnedOnceWitness ==
    /\ drains = << << 1 >>, << >> >>
    /\ actions = <<>>

\* How many times arrival n was returned by a next_event call.
Deliveries(n) ==
    Cardinality({ pi \in Pullers \X (1..MaxArrivals) :
                    pi[2] <= Len(got[pi[1]]) /\ got[pi[1]][pi[2]] = n })

\* C18: a decode task that ends with an Err (an entity that splits a surrogate
\* pair; a frame that is no text, no JSON of an Event, or a group message
\* without group_id) logs it and sends no Event: the step changes nothing but
\* the set of spawned tasks, which loses that one task, and the log; the
\* arrival is never among those sent to the queue; the ingestion loop never
\* returns; and every update / frame that decodes to a message, spawned
\* before or after a failure, is eventually pushed and pulled.
DecodeErrorsConfined ==
    /\ [][ \A a \in Adapters : \A it \in spawned[a] :
              (it \notin spawned'[a] /\ DecodeErrs(a, it)) =>
                  /\ << a, it.n >> \in dropped'
                  /\ spawned' = [spawned EXCEPT ![a] = @ \ {it}]
                  /\ enq' = enq /\ queue' = queue /\ waiters' = waiters
                  /\ runPc' = runPc /\ drainPc' = drainPc /\ mainPc' = mainPc ]_vars
    /\ [](\A d \in dropped : \A i \in 1..Len(enq[d[1]]) : enq[d[1]][i] # d[2])
    /\ [](\A a \in Adapters : runPc[a] # "returned")
    /\ \A n \in 1..MaxArrivals :
          (\E it \in spawned[1] : it.n = n /\ it.body = "message")
              ~> (\E i \in 1..Len(pulled[1]) : pulled[1][i] = n)

\* C18 witness: the decode of one arrival failed and was logged, while an
\* arrival before it and an arrival after it were pushed and pulled, and the
\* ingestion loop is still at work.
DecodeErrorsConfinedWitness ==
    /\ << 1, 2 >> \in dropped
    /\ pulled[1] = << 1, 3 >>
    /\ runPc[1] \in {"poll", "pollWait", "connected"}

\* C19: at most one caller of next_event is inside the receiver at a time;
\* every event pulled was returned to exactly one caller, once; every event
\* not pulled yet is still in the slot or with its parked sender (none is
\* lost).
SingleConsumer ==
    /\ Cardinality({ p \in Pullers : pullPc[p] = "receiving" }) <= 1
    /\ \A n \in 1..MaxArrivals :
          Deliveries(n) = IF \E i \in 1..Len(pulled[1]) : pulled[1][i] = n THEN 1 ELSE 0
    /\ enq[1] = pulled[1] \o EventNumbers(queue[1]) \o EventNumbers(waiters[1])

\* C19 witness: both callers have been returned events, and one waits for
\* the lock while the other is inside the receiver.
SingleConsumerWitness ==
    /\ got["drain"] # <<>> /\ got["jobs"] # <<>>
    /\ \E p, q \in Pullers : pullPc[p] = "receiving" /\ pullPc[q] = "locking"

\* C14: for a response that arrived, call_api returns Ok exactly when data is
\* present, whatever the status; with data absent it fails with retcode and
\* message when the status is failed, and with the empty-data error when the
\* status is ok or async.
RpcEnvelope ==
    (call.op = "call_api" /\ result # NoResult /\ call.reply.tag = "resp")
        => /\ result.tag = "ok" <=> call.reply.data # Absent
           /\ call.reply.data # Absent => result = OkData(call.reply.data)
           /\ (call.reply.data = Absent /\ call.reply.status = "failed")
                 => result = [tag |-> "err", why |-> "failed",
                              retcode |-> call.reply.retcode,
                              message |-> call.reply.message]
           /\ (call.reply.data = Absent /\ call.reply.status \in {"ok", "async"})
                 => result = [tag |-> "err", why |-> "empty"]

\* C14 witness: call_api has returned Ok for a response with status failed
\* that carried data.
RpcEnvelopeWitness ==
    /\ call.op = "call_api"
    /\ call.reply.tag = "resp" /\ call.reply.status = "failed"
    /\ call.reply.data # Absent /\ call.reply.retcode = 1
    /\ result.tag = "ok"

\* C15: for a get_group_member_info response with status ok that carries the
\* role "owner", "admin" or "member", is_group_admin returns Ok: true for
\* "owner" and "admin", false for "member".
AdminMapping ==
    ( /\ call.op = "is_group_admin" /\ result # NoResult
      /\ call.ids
      /\ call.reply.status = "ok"
      /\ call.reply.data \in {"owner", "admin", "member"} )
        => result = OkData(call.reply.data \in {"owner", "admin"})

\* The sent contents have the shape Text(a), At(user with a numeric id),
\* Text(b).
TextMentionText(cs) ==
    /\ Len(cs) = 3
    /\ cs[1].t = "Text" /\ cs[2].t = "At" /\ cs[3].t = "Text"
    /\ ParseInt(cs[2].user.id).ok

\* The decode of the delivered wire form of the contents under study is done.
EchoDecoded == call.op = "handle_update" /\ call.sent # <<>> /\ result # NoResult

\* C16 as stated: contents Text(a), At(numeric id), Text(b) render as
\* a + mention-render + b, and their wire form decodes to three segments
\* Text(a), At(same id), Text(b).
RoundTripKeepsSegments ==
    (EchoDecoded /\ TextMentionText(call.sent))
        => /\ Render(call.sent)
                = call.sent[1].s \o RenderContent(call.sent[2]) \o call.sent[3].s
           /\ result.tag = "ok"
           /\ Len(result.contents) = 3
           /\ result.contents[1] = Text(call.sent[1].s)
           /\ result.contents[2].t = "At"
           /\ result.contents[2].user.id = call.sent[2].user.id
           /\ result.contents[3] = Text(call.sent[3].s)

\* The id as the decode gives it back: the decimal form of the parsed number.
Canonical(id) == IntToString(ParseInt(id).n)

\* C16: contents Text(a), At(numeric id), Text(b) render as
\* a + mention-render + b; their wire form decodes to the non-empty ones of
\* Text(a) and Text(b) around an At whose id is the canonical decimal form
\* of the id sent: three segments with the same boundaries and the same id
\* when a and b are non-empty and the id is in canonical form.
RoundTripKeepsNonEmptySegments ==
    (EchoDecoded /\ TextMentionText(call.sent))
        => LET a == call.sent[1].s
               b == call.sent[3].s
               id == call.sent[2].user.id
           IN  /\ Render(call.sent) = a \o RenderContent(call.sent[2]) \o b
               /\ result = Decoded(
                      (IF a = <<>> THEN <<>> ELSE << Text(a) >>)
                          \o << At(UserNew(Canonical(id))) >>
                          \o (IF b = <<>> THEN <<>> ELSE << Text(b) >>))
               /\ (a # <<>> /\ b # <<>> /\ Canonical(id) = id)
                     => /\ Len(result.contents) = 3
                        /\ result.contents[1] = Text(a)
                        /\ result.contents[2].user.id = id
                        /\ result.contents[3] = Text(b)

\* C16 witness: Text, At(id "5", with a nickname), Text with a char beyond
\* the BMP on either side has gone out and come back as three segments.
RoundTripKeepsNonEmptySegmentsWitness ==
    /\ EchoDecoded
    /\ call.sent = << Text(<< "a", "G" >>), At(UserWith(<< "5" >>, SomeString(<< "G" >>))),
                      Text(<< "G" >>) >>
    /\ Len(result.contents) = 3

\* The text each piece of the contents puts on the wire.
WirePiece(c) == IF c.t = "Text" THEN c.s ELSE MentionText(c.user)

RECURSIVE WireText(_)
WireText(cs) == IF cs = <<>> THEN <<>> ELSE WirePiece(Head(cs)) \o WireText(Tail(cs))

\* The positions of the At pieces in the contents, in order.
RECURSIVE AtPositions(_, _)
AtPositions(cs, k) ==
    IF k > Len(cs) THEN <<>>
    ELSE (IF cs[k].t = "At" THEN << k >> ELSE <<>>) \o AtPositions(cs, k + 1)

\* The number of chars of s that lie beyond the BMP.
RECURSIVE AstralCount(_)
AstralCount(s) ==
    IF s = <<>> THEN 0
    ELSE (IF Head(s) \in AstralChars THEN 1 ELSE 0) + AstralCount(Tail(s))

\* The texts of the Text segments, concatenated.
RECURSIVE TextSegments(_)
TextSegments(cs) ==
    IF cs = <<>> THEN <<>>
    ELSE (IF Head(cs).t = "Text" THEN Head(cs).s ELSE <<>>) \o TextSegments(Tail(cs))

\* C17: in a request built by send_msg_inner the text is the pieces'
\* concatenation, and the j-th entity starts at the number of UTF-16 code
\* units of the text before the j-th mention (chars plus one more for each
\* char beyond the BMP) and is as long as the mention's text in code units;
\* the slice of the encoded text it denotes decodes to the mention's text;
\* and when the request's text and entities are decoded, every slice
\* decodes and the Text segments obtained carry the whole sent text.
Utf16Accounting ==
    /\ (call.op = "send_msg_inner" /\ result.tag = "ok")
          => LET cs == call.contents
                 ats == AtPositions(cs, 1)
                 us == EncodeUtf16(result.req.text)
             IN  /\ result.req.text = WireText(cs)
                 /\ Len(result.req.entities) = Len(ats)
                 /\ \A j \in 1..Len(ats) :
                       LET e == result.req.entities[j]
                           before == WireText(SubSeq(cs, 1, ats[j] - 1))
                           m == WirePiece(cs[ats[j]])
                       IN  /\ e.offset = Len(before) + AstralCount(before)
                           /\ e.length = Len(m) + AstralCount(m)
                           /\ e.offset + e.length <= Len(us)
                           /\ FromUtf16(Slice(us, e.offset, e.offset + e.length))
                                 = [ok |-> TRUE, s |-> m]
    /\ EchoDecoded
          => /\ result.tag = "ok"
             /\ TextSegments(result.contents) = TextSegments(call.sent)
             /\ Len(AtPositions(result.contents, 1)) = Len(AtPositions(call.sent, 1))

\* C17 witness: a mention sent after a text of one BMP char and one char
\* beyond the BMP got offset 3, and the wire form has been decoded.
Utf16AccountingWitness ==
    /\ EchoDecoded
    /\ call.sent[1] = Text(<< "a", "G" >>)
    /\ Len(call.entities.list) = 1
    /\ call.entities.list[1].offset = 3
    /\ call.entities.list[1].length = 3
    /\ result.tag = "ok"

\* C20: BotAPI::send_msg calls send_msg_inner without a reply reference;
\* BotAPI::reply_to_msg calls it with the chat of the message replied to and
\* a reference to that message; the request Telegram::send_msg_inner builds
\* carries reply_parameters exactly for a reply, with the id of the message
\* replied to.
ReplyReference ==
    call.op = "send_msg_inner"
        => /\ call.via = "send_msg" => call.reply = NoReply
           /\ call.via = "reply_to_msg"
                 => /\ call.reply = [some |-> TRUE, id |-> call.msg.id]
                    /\ call.chat = call.msg.chat
           /\ result.tag = "ok"
                 => /\ result.req.reply_parameters.some <=> call.via = "reply_to_msg"
                    /\ result.req.reply_parameters.some
                          => /\ ParseInt(call.msg.id).ok
                             /\ result.req.reply_parameters.message_id
                                   = ParseInt(call.msg.id).n

\* C20 witness: a reply to message 7 of a private chat has produced its
\* request.
ReplyReferenceWitness ==
    /\ call.op = "send_msg_inner"
    /\ call.via = "reply_to_msg"
    /\ result.tag = "ok"
    /\ result.req.reply_parameters = [some |-> TRUE, message_id |-> 7]

\* The line a list of contents stands for: Text segments verbatim, a mention
\* of the adapter's own user as the marker.
RECURSIVE LineOf(_, _)
LineOf(self, cs) ==
    IF cs = <<>> THEN <<>>
    ELSE (IF Head(cs).t = "Text" THEN Head(cs).s ELSE BeAtText(self))
             \o LineOf(self, Tail(cs))

\* C21: the contents built from a line of standard input hold every marker
\* as a Mention of the adapter's own user and all other text of the line in
\* Text segments, in the original order: put together again they give the line.
LineTextKept ==
    (call.op = "handle_line" /\ result # NoResult) =>
        /\ \A i \in 1..Len(result.contents) :
              result.contents[i].t = "At" => result.contents[i].user = CliSelfUser
        /\ LineOf(CliSelfUser, result.contents) = call.line

\* The wire entities of the update under study are in ascending order and
\* do not overlap.
SortedEntities(ws) ==
    \A i \in 1..Len(ws) - 1 : ws[i].offset + ws[i].length <= ws[i + 1].offset

\* The code units a list of contents was made from: those of its Text
\* segments and those of the ranges of the mentions among the entities ws.
RECURSIVE TextUnits(_)
TextUnits(cs) ==
    IF cs = <<>> THEN 0
    ELSE (IF Head(cs).t = "Text" THEN Utf16Count(Head(cs).s) ELSE 0) + TextUnits(Tail(cs))

RECURSIVE MentionUnits(_)
MentionUnits(ws) ==
    IF ws = <<>> THEN 0
    ELSE (IF Head(ws).kind = "bold" THEN 0 ELSE Head(ws).length) + MentionUnits(Tail(ws))

WalkDone == call.op = "handle_update" /\ "wire" \in DOMAIN call /\ result # NoResult

\* C22: after every entity of any kind the cursor is that entity's
\* offset + length, so that with entities in ascending order that do not
\* overlap no code unit of the text is emitted in more than one segment.
CursorFollowsEntities ==
    (WalkDone /\ result.tag = "ok") =>
        /\ \A i \in 1..Len(call.wire) :
              LastPosAfter(call.entities.list[i]) = call.wire[i].offset + call.wire[i].length
        /\ SortedEntities(call.wire) =>
              TextUnits(result.contents) + MentionUnits(call.wire) <= Utf16Count(call.text)

\* The text an entity of the wire covers, without its first code unit.
CoveredName(t, w) == FromUtf16(Slice(EncodeUtf16(t), w.offset + 1, w.offset + w.length))

\* C23: a mention by name whose username (the covered text without the
\* leading marker) is the adapter's own nickname, compared case-sensitively,
\* gives a Mention of the adapter's own user, id and nickname; any other
\* username gives a User whose id is the username; a mention by id gives a
\* User whose id is the decimal form of the embedded id.
MentionResolution ==
    (WalkDone /\ result.tag = "ok" /\ Len(call.wire) = 1) =>
        LET w == call.wire[1]
            ats == SelectSeq(result.contents, LAMBDA c : c.t = "At")
        IN  /\ w.kind = "mention" =>
                 /\ Len(ats) = 1
                 /\ CoveredName(call.text, w).s = << "a" >> => ats[1].user = SelfUser
                 /\ CoveredName(call.text, w).s # << "a" >> =>
                        ats[1].user = UserNew(CoveredName(call.text, w).s)
            /\ w.kind = "text_mention" =>
                 /\ Len(ats) = 1
                 /\ ats[1].user = UserNew(<< "5" >>)

\* C23 witness: a mention by name of "A" beside an adapter whose nickname is
\* "a" has been decoded to a user with id "A", not to the adapter's own user.
MentionResolutionWitness ==
    /\ WalkDone /\ result.tag = "ok"
    /\ call.text = << "a", "A" >>
    /\ call.wire = << Mention(0, 2) >>
    /\ result.contents = << At(UserNew(<< "A" >>)) >>
    /\ GetNickname(SelfUser) = << "a" >>

\* C24: in send_msg_inner the counter after each segment is the UTF-16
\* length of the text built so far; every Mention appends "@" and the
\* nickname (the id when there is none) and gives one mention-by-id entity
\* with the user's parsed id, at the UTF-16 length of the text before it and
\* as long as the appended text; the entities ascend, do not overlap and lie
\* within the text.
MentionReconstruction ==
    (call.op = "send_msg_inner" /\ result.tag = "ok") =>
        LET cs == call.contents
            es == result.req.entities
            ats == AtPositions(cs, 1)
            upTo(k) == Reconstruct(SubSeq(cs, 1, k))
        IN  /\ \A k \in 0..Len(cs) :
                  /\ upTo(k).ok
                  /\ upTo(k).offset = Len(EncodeUtf16(upTo(k).text))
            /\ Len(es) = Len(ats)
            /\ \A j \in 1..Len(ats) :
                  LET u == cs[ats[j]].user
                      appended == << "@" >> \o (IF u.nickname.some THEN u.nickname.s ELSE u.id)
                  IN  /\ es[j].kind = "text_mention"
                      /\ ParseInt(u.id) = [ok |-> TRUE, n |-> es[j].user.id]
                      /\ upTo(ats[j]).text = upTo(ats[j] - 1).text \o appended
                      /\ es[j].offset = Len(EncodeUtf16(upTo(ats[j] - 1).text))
                      /\ es[j].length = Len(EncodeUtf16(appended))
            /\ \A j \in 1..Len(es) - 1 : es[j].offset + es[j].length <= es[j + 1].offset
            /\ \A j \in 1..Len(es) :
                  es[j].offset + es[j].length <= Len(EncodeUtf16(result.req.text))

\* C24 witness: a request was built from mention, text, mention; its second
\* entity begins after the first one's range and the text between them.
MentionReconstructionWitness ==
    /\ call.op = "send_msg_inner" /\ result.tag = "ok"
    /\ Len(call.contents) = 3
    /\ call.contents[1].t = "At" /\ call.contents[3].t = "At"
    /\ call.contents[1].user.nickname = SomeString(<< "G" >>)
    /\ call.contents[2] = Text(<< "a" >>)
    /\ Len(result.req.entities) = 2
    /\ result.req.entities[1].offset = 0 /\ result.req.entities[1].length = 3
    /\ result.req.entities[2].offset = 4

\* The text and at segments of a segment list, as contents.
TextAndAt(ws) ==
    LET kept == SelectSeq(ws, LAMBDA w : w.type \in {"text", "at"})
    IN  [i \in 1..Len(kept) |->
            IF kept[i].type = "text" THEN Text(kept[i].v) ELSE At(UserNew(kept[i].v))]

\* C25: the contents decoded from a message frame are its text and at
\* segments in their order, a text as Text and an at as a Mention of the user
\* with that id; a segment of any other type is skipped, the frame does not
\* fail and the segments after it are kept.
SegmentsTranslated ==
    (call.op = "handle_ws_msg" /\ result # NoResult) =>
        /\ result.tag = "ok"
        /\ result.contents = TextAndAt(call.message)

\* The segment list segs holds, in the order of the contents cs, one element
\* per Text and one per Mention, and besides them only a single-space text
\* directly after each mention.
RECURSIVE InContentOrder(_, _, _)
InContentOrder(cs, segs, private) ==
    IF cs = <<>> THEN segs = <<>>
    ELSE IF segs = <<>> THEN FALSE
    ELSE IF Head(cs).t = "Text"
         THEN /\ Head(segs) = Segment("text", Head(cs).s)
              /\ InContentOrder(Tail(cs), Tail(segs), private)
         ELSE /\ Len(segs) >= 2
              /\ Head(segs) = (IF private
                               THEN Segment("text", IF Head(cs).user.nickname.some
                                                    THEN Head(cs).user.nickname.s ELSE <<>>)
                               ELSE Segment("at", Head(cs).user.id))
              /\ segs[2] = Segment("text", << " " >>)
              /\ InContentOrder(Tail(cs), SubSeq(segs, 3, Len(segs)), private)

\* C26: the segment list of a request built by OneBot11::send_msg_inner has
\* the reply segment, if the send is a reply, in the first place, and after
\* it the elements of the contents in their order: a Text verbatim, a Mention
\* as an at segment with the user's id in a group chat and as a text of the
\* nickname in a private chat, each mention followed by a single-space text.
SegmentOrderKept ==
    (call.op = "send_msg_inner" /\ result.tag = "ok") =>
        LET segs == result.req.message
            private == result.req.kind = "private"
        IN  IF call.via = "reply_to_msg"
            THEN /\ segs # <<>>
                 /\ Head(segs) = Segment("reply", call.msg.id)
                 /\ InContentOrder(call.contents, Tail(segs), private)
            ELSE InContentOrder(call.contents, segs, private)

\* C26 witness: a reply of text, mention, text to a group has been built:
\* reply segment, text, at segment, space, text.
SegmentOrderKeptWitness ==
    /\ call.op = "send_msg_inner" /\ result.tag = "ok"
    /\ call.via = "reply_to_msg"
    /\ call.contents = << Text(<< "a" >>), At(UserNew(<< "5" >>)), Text(<< "a" >>) >>
    /\ result.req.kind = "group"
    /\ result.req.message =
          << Segment("reply", << "7" >>), Segment("text", << "a" >>),
             Segment("at", << "5" >>), Segment("text", << " " >>),
             Segment("text", << "a" >>) >>


\* A step of the drain loop of a: it has pulled one more event.
Pulls(a) == pulled'[a] # pulled[a]

\* The events whose handling task ends in this step.
Ended == handling \ handling'

\* C27: every pull of a drain loop takes the head of its queue and spawns
\* exactly one handling task, for that event and whatever tasks are still
\* running; an event is pulled, and so handled, at most once; the task of a
\* Message is one handle_msg on that message (it may send through the
\* message's chats or fail and be logged), the task of an Other event sends
\* nothing and logs nothing; a drain loop with an event in its queue can pull
\* it while earlier handling tasks are unfinished; every task ends.
DrainLoopDispatch ==
    /\ [][\A a \in Adapters : Pulls(a) =>
            /\ queue[a] # <<>>
            /\ pulled'[a] = Append(pulled[a], Head(queue[a]).n)
            /\ Head(queue[a]) \notin handling
            /\ handling' = handling \cup { Head(queue[a]) }]_vars
    /\ [][\A e \in Ended :
            /\ handling' = handling \ {e}
            /\ e.kind = "Message" =>
                  /\ sends' \ sends \subseteq HandlerSends(e)
                  /\ Cardinality(sends' \ sends) <= 1
                  /\ logged' \ logged \subseteq {e}
            /\ e.kind = "Other" => sends' = sends /\ logged' = logged]_vars
    /\ [](\A a \in Adapters :
            /\ \A i, j \in DOMAIN pulled[a] : i # j => pulled[a][i] # pulled[a][j]
            /\ \A e \in handling : e.src = a =>
                  \E i \in DOMAIN pulled[a] : pulled[a][i] = e.n)
    /\ [](\A a \in Adapters :
            (drainPc[a] = "pull" /\ queue[a] # <<>>) => ENABLED NextEvent(a))
    /\ \A n \in 1..MaxArrivals :
          (\E e \in handling : e.n = n) ~> ~(\E e \in handling : e.n = n)

\* C27 witness: the drain loop has pulled three events, and the tasks of an
\* Other event and of a Message are both unfinished.
DrainLoopDispatchWitness ==
    /\ Len(pulled[1]) = 3
    /\ \E e, f \in handling : e.kind = "Other" /\ f.kind = "Message"

\* The update ids dispatched so far by adapter a, in the order of the spawns.
DispatchedIds(a) ==
    { dispatched.ids[i][2] : i \in { j \in DOMAIN dispatched.ids : dispatched.ids[j][1] = a } }

\* A step of Telegram::run of a that spawns the tasks of a response.
Dispatches(a) == runPc[a] = "pollWait" /\ runPc'[a] = "poll"

\* C28 as stated: at a server that returns only ids at least the requested
\* offset, no update id is ever dispatched twice.
NoIdDispatchedTwice ==
    \A i, j \in DOMAIN dispatched.ids : i # j => dispatched.ids[i] # dispatched.ids[j]

\* C28: at a server that returns only ids at least the requested offset, a
\* successful polling response gets one new task per update and its ids go to
\* the record in the order of the batch; the offset of every request in
\* flight is greater than every id dispatched so far; so no id of a response
\* has been dispatched from an earlier response, whatever calls failed in
\* between.  (An id that a response holds twice gets two tasks.)
NoDispatchAcrossResponses ==
    /\ [][\A a \in Adapters : Dispatches(a) =>
            LET ups == resp[a].updates
            IN  /\ Cardinality(spawned'[a] \ spawned[a]) = Len(ups)
                /\ spawned[a] \subseteq spawned'[a]
                /\ dispatched'.ids =
                      dispatched.ids \o [i \in 1..Len(ups) |-> << a, ups[i].id >>]
                /\ UpdateIds(ups) \cap DispatchedIds(a) = {}]_vars
    /\ [][\A a \in Adapters : ~Dispatches(a) => dispatched' = dispatched]_vars
    /\ [](\A a \in Adapters : runPc[a] \in {"bootWait", "pollWait"} =>
            \A id \in DispatchedIds(a) : req[a].offset > id)

\* C28 witness: updates 1 and 2 have been dispatched, a later call asked for
\* ids from 3 on and failed, and the loop sleeps before its retry.
NoDispatchAcrossResponsesWitness ==
    /\ runPc[1] = "pollSleep"
    /\ req[1].offset = 3
    /\ dispatched.ids = << << 1, 1 >>, << 1, 2 >> >>
    /\ Cardinality(spawned[1]) = 2

\* The request of the bootstrap call.
BootstrapReq == [offset |-> BootstrapOffset, timeout |-> BootstrapTimeout]

\* C29: a failed bootstrap call takes Telegram::run to its sleep and from
\* there to the top of the outer loop, which sets the offset to 0 and issues
\* the bootstrap request again; the polling loop is entered only from a
\* bootstrap call that returned Ok; and once in the polling loop run() stays
\* in it, so no bootstrap follows the first one that succeeded.
BootstrapRepeatsUntilOk ==
    /\ [][\A a \in Adapters :
            /\ (runPc[a] = "bootWait" /\ resp[a].tag = "err" /\ runPc'[a] # runPc[a]) =>
                  runPc'[a] = "bootSleep" /\ offset'[a] = offset[a]
            /\ (runPc[a] = "bootSleep" /\ runPc'[a] # runPc[a]) => runPc'[a] = "boot"
            /\ (runPc[a] = "boot" /\ runPc'[a] # runPc[a]) =>
                  runPc'[a] = "bootWait" /\ offset'[a] = 0 /\ req'[a] = BootstrapReq
            /\ (runPc[a] \notin PollPcs /\ runPc'[a] \in PollPcs) =>
                  runPc[a] = "bootWait" /\ resp[a].tag = "ok"
            /\ runPc[a] \in PollPcs => runPc'[a] \in PollPcs]_vars
    /\ [](\A a \in Adapters : runPc[a] \in {"boot", "bootWait", "bootSleep"} =>
            arrivals[a] = 0 /\ spawned[a] = {})
    /\ \A a \in {1} : (runPc[a] = "bootSleep") ~> (runPc[a] = "bootWait" /\ req[a] = BootstrapReq)

\* C29 witness: the bootstrap call has failed and run() is in its sleep, the
\* offset at 0 and nothing dispatched.
BootstrapRepeatsUntilOkWitness ==
    /\ runPc[1] = "bootSleep"
    /\ offset[1] = 0
    /\ req[1] = BootstrapReq
    /\ resp[1] = NoResp
    /\ spawned[1] = {}

\* The adapters of the crate: each holds event_tx next to event_rx.
CrateAdapters == { a \in Adapters : KindOf(a) # "External" }

\* C30: the queue of an adapter of the crate is never closed, whether or not
\* its run() has returned, so its drain loop never ends; and BotMaid::run,
\* which waits for every drain loop, never returns when such an adapter is
\* registered.
QueueNeverCloses ==
    /\ \A a \in CrateAdapters : ~closed[a] /\ drainPc[a] # "done"
    /\ CrateAdapters # {} => mainPc # "returned"

\* C30 witness: Mock::run has returned, Cli::run has returned after a read
\* error and the jobs task is done; both drain loops still wait in next_event
\* on their empty, open queues and BotMaid::run is in join_all.
QueueNeverClosesWitness ==
    /\ apis = << "Mock", "Cli" >>
    /\ runPc[1] = "returned" /\ runPc[2] = "returned"
    /\ jobsPc = "done"
    /\ \A a \in Adapters : drainPc[a] = "pull" /\ queue[a] = <<>> /\ ~closed[a]
    /\ mainPc = "join"

\* be_at has been asked of the message decoded from the call.
BeAtAsked == result.tag = "ok" /\ "be_at" \in DOMAIN result

\* C31: be_at of a decoded message is true exactly when its contents hold a
\* Mention whose user id is the id of the decoding adapter's own user; so a
\* long-poll message with one mention by name is be_at exactly when the
\* username is the adapter's username or the text of its numeric id, one
\* with one mention by id exactly when the id is the adapter's, and a line
\* of the Cli exactly when it holds the marker of its own id.
SelfMentionDetected ==
    BeAtAsked =>
        /\ result.be_at =
              (\E i \in 1..Len(result.contents) :
                  /\ result.contents[i].t = "At"
                  /\ result.contents[i].user.id = DecoderSelfUser.id)
        /\ (call.op = "handle_update" /\ Len(call.wire) = 1) =>
              LET w == call.wire[1]
              IN  /\ w.kind = "mention" =>
                        result.be_at =
                            (CoveredName(call.text, w).s
                                \in { GetNickname(SelfUser), SelfUser.id })
                  /\ w.kind = "text_mention" =>
                        result.be_at = (IntToString(w.user.id) = SelfUser.id)
        /\ call.op = "handle_line" =>
              result.be_at = (MatchIndices(call.line, BeAtText(CliSelfUser), 0) # <<>>)

\* C31 witness: the mention by name covers "@9" beside an adapter whose
\* username is "a" and whose id is 9: the decoded user is not the adapter's
\* own user (it has no nickname), yet be_at is true.
SelfMentionDetectedWitness ==
    /\ BeAtAsked
    /\ call.op = "handle_update"
    /\ call.text = << "a", "9" >>
    /\ call.wire = << Mention(0, 2) >>
    /\ result.contents = << At(UserNew(<< "9" >>)) >>
    /\ result.contents[1].user # SelfUser
    /\ result.be_at

\* The send of the call has returned.
SendReturned == call.op = "send_msg_inner" /\ "api" \in DOMAIN call /\ result # NoResult

\* The string is no decimal integer: it is not an optional sign followed by
\* one decimal digit or more.
NotAnInteger(id) ==
    LET body == IF id # <<>> /\ Head(id) \in {"+", "-"} THEN Tail(id) ELSE id
    IN  \/ body = <<>>
        \/ \E i \in 1..Len(body) :
              body[i] \notin {"0", "1", "2", "3", "4", "5", "6", "7", "8", "9"}

\* Some Mention of the contents has a user id that is no integer.
MentionNotAnInteger(cs) ==
    \E i \in 1..Len(cs) : cs[i].t = "At" /\ NotAnInteger(cs[i].user.id)

\* C32 as stated: in both adapters a chat id or a replied-to message id that
\* is no integer, and in the long-poll adapter also the id of a mentioned
\* user, makes send_msg_inner return an error and hand no request to call_api.
NonNumericIdFailsSend ==
    (/\ SendReturned
     /\ \/ NotAnInteger(call.chat.id)
        \/ call.reply.some /\ NotAnInteger(call.reply.id)
        \/ KindOf(call.api) = "Telegram" /\ MentionNotAnInteger(call.contents))
        => result = ParseErr

\* C32: the long-poll send_msg_inner returns the parse error, and hands no
\* request to call_api, exactly when the id of a mentioned user, the
\* replied-to message id or the chat id is no integer; the gateway
\* send_msg_inner does so exactly when the chat id is no integer, and sends a
\* replied-to message id and (in a group) a mentioned user's id as they are.
NonNumericIdFailsSendWhereParsed ==
    SendReturned =>
        /\ result.tag \in {"ok", "err"}
        /\ KindOf(call.api) = "Telegram" =>
              (result = ParseErr) =
                  (\/ MentionNotAnInteger(call.contents)
                   \/ call.reply.some /\ NotAnInteger(call.reply.id)
                   \/ NotAnInteger(call.chat.id))
        /\ KindOf(call.api) = "OneBot11" =>
              /\ (result = ParseErr) = NotAnInteger(call.chat.id)
              /\ (result.tag = "ok" /\ call.reply.some) =>
                    Head(result.req.message) = Segment("reply", call.reply.id)
              /\ (result.tag = "ok" /\ call.chat.type = "group") =>
                    \A i \in 1..Len(call.contents) : call.contents[i].t = "At" =>
                        \E j \in 1..Len(result.req.message) :
                            result.req.message[j] = Segment("at", call.contents[i].user.id)

\* C32 witness: a long-poll send that mentions the user of a mention by name
\* (id "a") in a chat with a numeric id has returned the parse error.
NonNumericIdFailsSendWhereParsedWitness ==
    /\ SendReturned
    /\ KindOf(call.api) = "Telegram"
    /\ call.contents = << Text(<< "a" >>), At(UserNew(<< "a" >>)) >>
    /\ call.chat = TgChat("private", << "5" >>)
    /\ ~call.reply.some
    /\ result = ParseErr

\* The arrival numbers of the events of a that are in its queue or pulled.
Entered(a) ==
    { pulled[a][i] : i \in DOMAIN pulled[a] } \cup { queue[a][i].n : i \in DOMAIN queue[a] }

\* C33: Cli::run returns only in the step in which the read fails; the step
\* of an end of input changes nothing: run does not return and no event is
\* pushed; a line is read only while run is at its read with no event of it
\* waiting, every event of an earlier line being in the queue or pulled
\* already, and it gives exactly one event.
CliRunEndsOnReadError ==
    /\ [][\A a \in CliAdapters :
            /\ (runPc[a] # "returned" /\ runPc'[a] = "returned") => CliErr(a)
            /\ CliEof(a) =>
                  /\ runPc'[a] = runPc[a]
                  /\ arrivals'[a] = arrivals[a] /\ enq'[a] = enq[a]
                  /\ queue'[a] = queue[a] /\ waiters'[a] = waiters[a]
            /\ arrivals'[a] # arrivals[a] =>
                  /\ runPc[a] = "read"
                  /\ waiters[a] = <<>>
                  /\ Entered(a) = 1..arrivals[a]
                  /\ arrivals'[a] = arrivals[a] + 1
                  /\ enq'[a] = Append(enq[a], arrivals'[a])]_vars
    /\ [](\A a \in CliAdapters :
            /\ Len(waiters[a]) <= 1
            /\ runPc[a] = "returned" => waiters[a] = <<>>)

\* C33 witness: two lines were read, the event of the first was pulled, the
\* event of the second is in the queue, and Cli::run has returned after a
\* failed read.
CliRunEndsOnReadErrorWitness ==
    /\ apis = << "Cli" >>
    /\ runPc[1] = "returned"
    /\ arrivals[1] = 2
    /\ pulled[1] = << 1 >>
    /\ EventNumbers(queue[1]) = << 2 >>
====
